---- MODULE Spec2Model ----
(***************************************************************************)
(* Verification model of picframe (pf_aspect): the persistent scheduler    *)
(* (async_timer.py), the image normalizer (process_images.py), the playlist *)
(* ingestor and its download throttling (import_photos.py), the catalog    *)
(* insert and the playing of the slideshow (image_cache.py) and the        *)
(* sequencer (create_new_slideshow.py).                                    *)
(*                                                                         *)
(* Each component is a state machine of its own (SpecTimer, SpecNorm,      *)
(* SpecIngest, SpecThrottle, SpecCat, SpecPlay, SpecSeq); SpecIngest runs  *)
(* the ingestor together with the normalization of the files it downloads. *)
(* One action is one run of a handler between two suspension points of the *)
(* asyncio event loop, or one statement of a thread where threads share a  *)
(* connection.                                                             *)
(***************************************************************************)
EXTENDS Integers, Sequences, FiniteSets, TLC

\* Python's None where a timestamp is expected (no row, a failed read, no
\* launch yet); every stored timestamp is a time.time() value >= 0.
None == -1

(***************************************************************************)
(* Bounds of the model.                                                    *)
(***************************************************************************)
MaxTime == 3          \* the wall clock runs over 0..MaxTime
MaxTasks == 2         \* registrations per scheduler instance
MaxRestarts == 1      \* process crash/restart cycles
MaxReq == 3           \* normalization requests created in one run
MaxVersion == 2       \* remote version counters 1..MaxVersion; version v lists items 1..v
MaxCalls == 2         \* check_for_updates calls per process
MaxItems == 4         \* media items handed to save_downloaded_media
MaxLimit == 2         \* the two concurrency limits range over 1..MaxLimit
MaxBatch == 3         \* download_batch_size ranges over 1..MaxBatch
MaxInserts == 3       \* insert calls and batches made on the Catalog connection
MaxEntries == 3       \* file ids 1..MaxEntries of the store the slideshow is played from
MaxMarks == 2         \* set_played_for_image calls
MaxFiles == 3         \* rows of table file when a slideshow is generated
MaxTarget == 3        \* target_set_size ranges over 1..MaxTarget
MaxMin == 3           \* min_set_size ranges over 1..MaxMin
BATCH_LIMIT == 2      \* values asked of the service per request (10000 in the source)
scan_batch_size == 1  \* files per batch of the scan's drain (2000 in the source)
MaxCreates == 6       \* create_new_slideshow calls in a run

VARIABLES
    \* ---- PersistentScheduler (async_timer.py)
    now,            \* time.time(), in whole seconds
    timer_state,    \* table timer_state: name -> last_run, None when no row
    tasks,          \* AsyncTimerManager._tasks of the live process
    running,        \* AsyncTimerManager._running
    units,          \* AsyncTimerManager._running_tasks: job units in flight
    restarts,       \* process restarts so far
    launchLog,      \* history: per name, the last launches of the job body
    stopped,        \* Controller.stop has returned
    db_open,        \* the scheduler's store handle is open
    cleanups,       \* history: calls of cleanup() per job since the process started
    cancelled,      \* history: the names of the jobs whose units stop() cancelled
    exited          \* the event loop was ended by SystemExit

VARIABLES
    \* ---- Normalizer (process_images.py) and Catalog insert (image_cache.py)
    import_dir,     \* the files present in the import directory
    out_dir,        \* the normalized files written below picture_dir
    file_rows,      \* table file: number of rows per (folder, basename, extension)
    file_locks,     \* ProcessImages.__file_locks of the controller's instance
    sweepReq,       \* sem_task units of process_images not yet run, per path
    singleReq,      \* _process_single_image_async units not yet run, per path
    reqCount,       \* normalization requests created so far
    dropped,        \* history: the paths that were put into the import directory
    deletes,        \* history: successful unlinks of the source, per path
    twice,          \* history: the paths that had two requests pending at once
    fullOk          \* history: the paths one request processed without failure

stopVars == <<stopped, db_open, cleanups, cancelled, exited>>

timerVars == <<now, timer_state, tasks, running, units, restarts, launchLog, stopVars>>

normVars == <<import_dir, out_dir, file_rows, file_locks, sweepReq, singleReq,
              reqCount, dropped, deletes, twice, fullOk>>

VARIABLES
    \* ---- Ingestor (import_photos.py)
    remote,         \* the remote account as the last listing found it
    pl_present,     \* table imported_playlists: the playlist ids that have a row
    src_version,    \* imported_playlists.src_version per playlist, NullVersion for NULL
    imported_files, \* table imported_files: (playlist_id, media_item_id)
    importing,      \* ImportPhotos._importing
    cycles,         \* the ingestion cycles in progress
    callNo,         \* check_for_updates calls made in this process
    listings,       \* history: playlist listing requests sent
    itemRequests,   \* history: playlists whose slides URL the last pass requested
    upToDate,       \* history: update candidates the last pass found at the remote version
    requeued,       \* history: items queued although imported_files held them
    staleSeen,      \* history: stored playlists a completed pass found missing remotely
    dl,             \* history: <<call, path>> of every finished download
    remoteChanged,  \* history: a listing after the first found the account changed
    visited,        \* history: the sources the last preparation pass came to
    login_failed,   \* history: a login was refused in a preparation pass
    lockWaits       \* history: stale playlists whose DELETE of the last pass was issued
                    \* on a second connection while the first held the write lock

ingestVars == <<remote, pl_present, src_version, imported_files, importing,
                cycles, callNo, listings, itemRequests, upToDate,
                requeued, staleSeen, dl, remoteChanged, visited, login_failed,
                lockWaits>>

VARIABLES
    \* ---- Download throttling (import_photos.py, save_downloaded_media)
    saving,                 \* a save_downloaded_media call is in progress
    max_concurrent_downloads,
    max_concurrent_db_operations,
    download_batch_size,
    total_items,            \* len(media_items)
    batch_i,                \* the loop variable i: items before it were launched
    download_semaphore,     \* asyncio.Semaphore._value
    db_semaphore,           \* asyncio.Semaphore._value
    item_pc,                \* where each item's download unit stands
    file_records,           \* items with a committed imported_files row
    image_processing_tasks, \* items handed to _start_image_processing_async
    results                 \* items whose unit returned True

unitVars == <<file_records, image_processing_tasks, results>>

throttleVars == <<saving, max_concurrent_downloads, max_concurrent_db_operations,
                  download_batch_size, total_items, batch_i, download_semaphore,
                  db_semaphore, item_pc, unitVars>>

VARIABLES
    \* ---- Catalog insert on the shared connection (image_cache.py)
    folder_tab,     \* table folder as self.__db sees it: the folder names
    file_tab,       \* table file as self.__db sees it: rows per unique key
    meta_tab,       \* table meta as self.__db sees it: the files with a row
    disk_folder,    \* table folder as committed
    disk_file,      \* table file as committed
    disk_meta,      \* table meta as committed
    txn,            \* the writes of the open transaction of self.__db
    ins,            \* the call each thread is executing and where it stands
    insCalls,       \* calls made so far
    inserted        \* history: committed file statements per file, up to 2

catVars == <<folder_tab, file_tab, meta_tab, disk_folder, disk_file, disk_meta,
             txn, ins, insCalls, inserted>>

VARIABLES
    \* ---- Catalog purge (image_cache.py, update_cache)
    gone_dirs,      \* the folders that are no longer on disk
    gone_files,     \* the files that were removed from a folder still on disk
    purge_files,    \* ImageCache.__purge_files
    purge_req,      \* history: what the pending purge request asked for
    purge_pc,       \* where __purge_missing_files_and_folders stands
    cascaded        \* history: a delete took a meta row along with its file row

purgeVars == <<gone_dirs, gone_files, purge_files, purge_req, purge_pc, cascaded>>

VARIABLES
    \* ---- Playing the slideshow (image_cache.py)
    slideshow,      \* table slideshow as self.__db sees it
    shown,          \* file.displayed_count per file_id as self.__db sees it, None: no row
    disk_slideshow, \* table slideshow as committed
    disk_shown,     \* file.displayed_count as committed
    mark,           \* the set_played_for_image call in progress
    marks,          \* set_played_for_image calls made so far
    next_pic,       \* what get_next_file_from_slideshow returned for the present tables
    served,         \* history: the files returned since the table was written,
                    \* kept while following holds
    following       \* history: since then every returned file was marked, once,
                    \* the marks were committed and no file row was deleted

playHist == <<served, following>>

playVars == <<slideshow, shown, disk_slideshow, disk_shown, mark, marks, next_pic,
              playHist>>

VARIABLES
    \* ---- Sequencer (create_new_slideshow.py)
    seq_pc,             \* where generate_slideshow stands
    folder_map,         \* table file ORDER BY file_id: the folder_id of file 1, 2, ...
    target_set_size,
    min_set_size,
    shuffle,
    all_randomized,     \* fetch_random_sequence_large: the values collected so far
                        \* (empty outside the call)
    random_positions,   \* what fetch_random_sequence_large returned
    fell_back,          \* history: "first"/"later" when that request to the service
                        \* failed and the local shuffle was used, else "no"
    groups,             \* what build_groups_dynamic returned
    seq_table,          \* table slideshow as committed: whether it exists, still holds
                        \* the previous sequence, holds the new rows; save raised
    seq_ret             \* what generate_slideshow returned

seqVars == <<seq_pc, folder_map, target_set_size, min_set_size, shuffle, all_randomized,
             random_positions, fell_back, groups, seq_table, seq_ret>>

VARIABLES
    \* ---- Catalog scan (image_cache.py, update_cache)
    scan_pc,                \* "idle", or "drain": inside update_cache
    modified_folders,       \* self.__modified_folders: pairs <<dir, mod_tm>>
    modified_files,         \* self.__modified_files: the pending files
    pause_looping,          \* self.__pause_looping
    folder_last_modified,   \* folder.last_modified per dir, None without a row
    st_mtime,               \* the modification time of each dir on disk
    listdir,                \* the files on disk
    handed,                 \* files passed to __insert_files_batch so far
    scan_rows,              \* the files that have a file row
    walked                  \* the latest update_cache call walked the disk

scanVars == <<scan_pc, modified_folders, modified_files, pause_looping,
              folder_last_modified, st_mtime, listdir, handed, scan_rows, walked>>

VARIABLES
    \* ---- Slideshow creation guard (image_cache.py, create_new_slideshow)
    creating_new_slideshow, \* self._creating_new_slideshow
    creator,                \* where each calling thread stands
    creates,                \* calls made so far
    skipped                 \* threads whose latest call returned at the guard

createVars == <<creating_new_slideshow, creator, creates, skipped>>

\* The components added after the first five.
moreVars == <<scanVars, createVars>>

\* The components other than scheduler, normalizer and ingestor.
extVars == <<throttleVars, catVars, purgeVars, playVars, seqVars, moreVars>>

coreVars == <<timerVars, normVars, ingestVars>>

\* What the actions of one of these components leave alone.
restOfThrottle == <<coreVars, catVars, purgeVars, playVars, seqVars, moreVars>>
restOfCat == <<coreVars, throttleVars, purgeVars, playVars, seqVars, moreVars>>
restOfPlay == <<coreVars, throttleVars, catVars, purgeVars, seqVars, moreVars>>
restOfSeq == <<coreVars, throttleVars, catVars, purgeVars, playVars, moreVars>>
restOfPurge == <<coreVars, throttleVars, playVars, seqVars, moreVars>>
firstVars == <<coreVars, throttleVars, catVars, purgeVars, playVars, seqVars>>
restOfScan == <<firstVars, createVars>>
restOfCreate == <<firstVars, scanVars>>

vars == <<timerVars, normVars, ingestVars, extVars>>

(***************************************************************************)
(* Normalizer and Catalog insert                                           *)
(***************************************************************************)
\* The playlist ids of the account at the one implemented source (nixplay),
\* and the media item ids of the remote service.
Playlists == {1, 2}
Media == 1..MaxVersion

\* Files that the Ingestor downloads (or a user drops) into the import
\* directory: <<p, m>> is the file nixplay_<p>_<m>.jpg; each maps to one output
\* file and one file-table key, and carries its playlist in its name.
Paths == Playlists \X Media

\* Where process_image stops: the step that fails, or "ok".
Outcomes == {"ok", "read", "scale", "save", "store", "unlink"}

InitNorm ==
    /\ import_dir = {}
    /\ out_dir = {}
    /\ file_rows = [f \in Paths |-> 0]
    /\ file_locks = {}
    /\ sweepReq = [f \in Paths |-> 0]
    /\ singleReq = [f \in Paths |-> 0]
    /\ reqCount = 0
    /\ dropped = {}
    /\ deletes = [f \in Paths |-> 0]
    /\ twice = {}
    /\ fullOk = {}

\* A plain INSERT in place of INSERT OR IGNORE (mutant of InsertOrIgnore).
InsertAlways(rows, f) == [rows EXCEPT ![f] = @ + 1]

\* INSERT OR IGNORE INTO file(...): the row is added unless one with the same
\* (folder, basename, extension) exists.
InsertOrIgnore(rows, f) == IF rows[f] = 0 THEN [rows EXCEPT ![f] = 1] ELSE rows

\* ImageCache.__insert_file: a failing write is logged, not raised.
InsertFile(rows, f, writeOk) == IF writeOk THEN InsertOrIgnore(rows, f) ELSE rows

\* process_image got as far as writing the output file.
Saved(o) == o \notin {"read", "scale", "save"}

\* The source is unlinked once the output is saved: a failure of add_to_db is
\* caught and logged before the unlink, which runs in any case.
Unlinks(o) == Saved(o) /\ o # "unlink"

\* process_image(file_path): one run without a suspension point.
ProcessImage(f, o) ==
    IF f \notin import_dir
    THEN \* pyvips cannot open the file: logged
         UNCHANGED <<import_dir, out_dir, file_rows, deletes, fullOk>>
    ELSE /\ out_dir' = IF Saved(o) THEN out_dir \cup {f} ELSE out_dir
         /\ file_rows' = IF Saved(o)
                          THEN InsertFile(file_rows, f, o # "store")
                          ELSE file_rows
         /\ import_dir' = IF Unlinks(o) THEN import_dir \ {f} ELSE import_dir
         /\ deletes' = IF Unlinks(o) THEN [deletes EXCEPT ![f] = @ + 1]
                        ELSE deletes
         /\ fullOk' = IF o = "ok" THEN fullOk \cup {f} ELSE fullOk

Pending(f) == sweepReq[f] + singleReq[f]

\* A download (or a manual copy) puts a file into the import directory.
Drop(f) ==
    /\ f \notin dropped
    /\ import_dir' = import_dir \cup {f}
    /\ dropped' = dropped \cup {f}
    /\ UNCHANGED <<out_dir, file_rows, file_locks, sweepReq, singleReq,
                   reqCount, deletes, twice, fullOk, timerVars, ingestVars, extVars>>

\* _start_image_processing_async(local_path): a unit that will call
\* process_single_image_async of a new ProcessImages instance.
ProcessOne(f) ==
    /\ f \in dropped
    /\ reqCount < MaxReq
    /\ singleReq' = [singleReq EXCEPT ![f] = @ + 1]
    /\ reqCount' = reqCount + 1
    /\ twice' = IF Pending(f) >= 1 THEN twice \cup {f} ELSE twice
    /\ UNCHANGED <<import_dir, out_dir, file_rows, file_locks, sweepReq,
                   dropped, deletes, fullOk, timerVars,
                   ingestVars, extVars>>

\* process_images(): lists the import directory and gathers one sem_task per
\* file found.
ProcessAll ==
    /\ import_dir # {}
    /\ reqCount + Cardinality(import_dir) <= MaxReq
    /\ sweepReq' = [f \in Paths |->
                        IF f \in import_dir THEN sweepReq[f] + 1 ELSE sweepReq[f]]
    /\ reqCount' = reqCount + Cardinality(import_dir)
    /\ twice' = twice \cup {f \in import_dir : Pending(f) >= 1}
    /\ UNCHANGED <<import_dir, out_dir, file_rows, file_locks, singleReq,
                   dropped, deletes, fullOk, timerVars,
                   ingestVars, extVars>>

\* sem_task(file): skipped when the path is in __file_locks; otherwise the
\* lock is created, taken, process_image awaited and the lock removed again,
\* all in one step of the event loop.
SemTask(f, o) ==
    /\ ~exited
    /\ sweepReq[f] > 0
    /\ sweepReq' = [sweepReq EXCEPT ![f] = @ - 1]
    /\ IF f \in file_locks
       THEN UNCHANGED <<import_dir, out_dir, file_rows, deletes, fullOk>>
       ELSE ProcessImage(f, o)
    /\ file_locks' = file_locks \ {f}
    /\ UNCHANGED <<singleReq, reqCount, dropped, twice, timerVars, ingestVars, extVars>>

\* _process_single_image_async(file_path): process_image without any lock.
SingleTask(f, o) ==
    /\ ~exited
    /\ singleReq[f] > 0
    /\ singleReq' = [singleReq EXCEPT ![f] = @ - 1]
    /\ ProcessImage(f, o)
    /\ UNCHANGED <<file_locks, sweepReq, reqCount, dropped, twice, timerVars,
                   ingestVars, extVars>>

NextNorm ==
    \/ \E f \in Paths : Drop(f)
    \/ \E f \in Paths : ProcessOne(f)
    \/ ProcessAll
    \/ \E f \in Paths, o \in Outcomes : SemTask(f, o)
    \/ \E f \in Paths, o \in Outcomes : SingleTask(f, o)

(***************************************************************************)
(* PersistentScheduler                                                     *)
(***************************************************************************)
\* The jobs the controller registers (controller.py:164-166).
JobNames == {"import", "process_images"}

\* The interval a name is registered with; a restart registers the same one.
IntervalOf(n) == IF n = "import" THEN 2 ELSE 3

NoLaunch == [last |-> None, prev |-> None, persisted |-> None, dup |-> FALSE]

\* _load_last_run: the row's value, None when there is no row or the read fails.
LoadLastRun(n, readOk) == IF readOk THEN timer_state[n] ELSE None

\* _save_last_run: upsert of (name, timestamp); a failing write is logged and
\* leaves the table as it was.
SaveLastRun(ts, n, t, writeOk) == IF writeOk THEN [ts EXCEPT ![n] = t] ELSE ts

InitTimer ==
    /\ now = 0
    /\ timer_state = [n \in JobNames |-> None]
    /\ tasks = <<>>
    /\ running = FALSE
    /\ units = {}
    /\ restarts = 0
    /\ launchLog = [n \in JobNames |-> NoLaunch]
    /\ stopped = FALSE
    /\ db_open = TRUE
    /\ cleanups = [n \in JobNames |-> 0]
    /\ cancelled = {}
    /\ exited = FALSE

\* register(callback, interval, name): no check for an existing name.  The
\* controller registers its jobs before it starts the loop.
Register(n, readOk) ==
    /\ ~running /\ ~stopped /\ ~exited
    /\ Len(tasks) < MaxTasks
    /\ LET loaded == LoadLastRun(n, readOk)
           last_run == IF loaded = None THEN now - IntervalOf(n) ELSE loaded
       IN tasks' = Append(tasks, [name |-> n, interval |-> IntervalOf(n),
                                  last_run |-> last_run])
    /\ UNCHANGED <<now, timer_state, running, units, restarts, launchLog,
                   stopVars, normVars, ingestVars, extVars>>

\* start(), called once by Controller.start after the registrations.
Start ==
    /\ ~running /\ ~stopped /\ ~exited
    /\ running' = TRUE
    /\ UNCHANGED <<now, timer_state, tasks, units, restarts, launchLog,
                   stopVars, normVars, ingestVars, extVars>>

\* A job counts as due only while none of its units is left (mutant of Due).
DueWhenIdle(task) ==
    /\ now - task.last_run >= task.interval
    /\ ~\E u \in units : u.name = task.name

\* due = now - task["last_run"] >= task["interval"]
Due(task) == now - task.last_run >= task.interval

DueIdx == {i \in 1..Len(tasks) : Due(tasks[i])}

\* The for loop of _run over self._tasks, from index i on: every due task gets
\* last_run = now in memory and a _save_last_run; failed holds the indexes
\* whose write fails.
RECURSIVE SaveDue(_, _, _)
SaveDue(ts, i, failed) ==
    IF i > Len(tasks) THEN ts
    ELSE SaveDue(IF Due(tasks[i])
                 THEN SaveLastRun(ts, tasks[i].name, now, i \notin failed)
                 ELSE ts,
                 i + 1, failed)

Duplicated(n) == Cardinality({i \in 1..Len(tasks) : tasks[i].name = n}) > 1

\* History of launches, for the properties only.
RECURSIVE LogDue(_, _)
LogDue(log, i) ==
    IF i > Len(tasks) THEN log
    ELSE LET n == tasks[i].name IN
         LogDue(IF Due(tasks[i])
                THEN [log EXCEPT ![n] = [last |-> now, prev |-> log[n].last,
                                         persisted |-> timer_state[n],
                                         dup |-> Duplicated(n)]]
                ELSE log,
                i + 1)

\* One iteration of the while loop of _run: the due jobs are marked and saved
\* one after the other, then one unit per due job is created with
\* asyncio.create_task, then the loop sleeps for a second (the units get
\* their steps while it sleeps: the first step of each is queued ahead of the
\* timer of the sleep, so none is still unstarted at the next iteration).
Tick(failed) ==
    /\ running
    /\ \A u \in units : u.st # "created"
    /\ now < MaxTime
    /\ failed \subseteq DueIdx
    /\ tasks' = [i \in 1..Len(tasks) |->
                    IF Due(tasks[i]) THEN [tasks[i] EXCEPT !.last_run = now]
                    ELSE tasks[i]]
    /\ timer_state' = SaveDue(timer_state, 1, failed)
    /\ units' = units \cup {[idx |-> i, name |-> tasks[i].name, at |-> now,
                             st |-> "created"] : i \in DueIdx}
    /\ launchLog' = LogDue(launchLog, 1)
    /\ now' = now + 1
    /\ UNCHANGED <<running, restarts, stopVars, normVars, ingestVars, extVars>>

\* _run_task: the event loop gives the unit its first step.
JobStart(u) ==
    /\ u \in units
    /\ u.st = "created"
    /\ units' = (units \ {u}) \cup {[u EXCEPT !.st = "running"]}
    /\ UNCHANGED <<now, timer_state, tasks, running, restarts, launchLog,
                   stopVars, normVars, ingestVars, extVars>>

\* Where a job body ends: it returns, it raises an Exception, or (the import
\* job, at a failed login in get_source_playlists) it raises SystemExit.
BodyOutcomes(n) == {"returned", "raised"} \cup (IF n = "import" THEN {"exit"} ELSE {})

\* except Exception of _run_task (mutant of CaughtAtBoundary: nothing is caught).
CaughtNothing(o) == o = "returned"

\* _run_task logs what "except Exception" catches; SystemExit is not an
\* Exception and leaves the unit, and asyncio lets it end the event loop.
CaughtAtBoundary(o) == o # "exit"

\* _run_task ends: the callback returned, or raised and was logged, and the
\* done callback discards the unit; or the exception leaves the event loop,
\* and asyncio.run cancels what is left and the process ends.
JobDone(u, o) ==
    /\ u \in units
    /\ u.st = "running"
    /\ o \in BodyOutcomes(u.name)
    /\ IF CaughtAtBoundary(o)
       THEN /\ units' = units \ {u}
            /\ UNCHANGED <<running, db_open, exited>>
       ELSE /\ units' = {}
            /\ running' = FALSE
            /\ db_open' = FALSE
            /\ exited' = TRUE
    /\ UNCHANGED <<now, timer_state, tasks, restarts, launchLog, stopped, cleanups,
                   cancelled, normVars, ingestVars, extVars>>

\* _save_all_states: one transaction with an upsert per entry of self._tasks,
\* from index i on.
RECURSIVE SaveAllStates(_, _)
SaveAllStates(ts, i) ==
    IF i > Len(tasks) THEN ts
    ELSE SaveAllStates([ts EXCEPT ![tasks[i].name] = tasks[i].last_run], i + 1)

\* Task.cancel() of a unit: the CancelledError is raised in it at its next
\* step.
Cancel(u) == [u EXCEPT !.st = IF u.st = "created" THEN "cancelled_new" ELSE "cancelled"]

\* The job objects with a cleanup method (ImportPhotos, ProcessImages).
HasCleanup(n) == n \in {"import", "process_images"}

\* Controller.stop: AsyncTimerManager.stop (the states are saved, a failing
\* write is logged; every unit is cancelled; the loop is told to end and its
\* task cancelled; the handle is closed), then ImportPhotos.cleanup().
Stop(writeOk) ==
    /\ running
    /\ timer_state' = IF writeOk THEN SaveAllStates(timer_state, 1) ELSE timer_state
    /\ units' = {Cancel(u) : u \in units}
    /\ cancelled' = {u.name : u \in units}
    /\ running' = FALSE
    /\ db_open' = FALSE
    /\ cleanups' = [cleanups EXCEPT !["import"] = @ + 1]
    /\ stopped' = TRUE
    /\ UNCHANGED <<now, tasks, restarts, launchLog, exited, normVars, ingestVars, extVars>>

\* The CancelledError surfaces in a cancelled unit: a unit that never ran
\* ends before the first statement of _run_task; in one that was waiting in
\* its callback, _run_task calls cleanup() of the job object and re-raises.
RunTaskCancelled(u) ==
    /\ u \in units
    /\ u.st \in {"cancelled_new", "cancelled"}
    /\ units' = units \ {u}
    /\ cleanups' = IF u.st = "cancelled" /\ HasCleanup(u.name)
                   THEN [cleanups EXCEPT ![u.name] = @ + 1]
                   ELSE cleanups
    /\ UNCHANGED <<now, timer_state, tasks, running, restarts, launchLog, stopped,
                   db_open, cancelled, exited, normVars, ingestVars, extVars>>

\* The process dies and is started again: only timer_state survives.
CrashRestart ==
    /\ restarts < MaxRestarts
    /\ restarts' = restarts + 1
    /\ tasks' = <<>>
    /\ running' = FALSE
    /\ units' = {}
    /\ stopped' = FALSE
    /\ db_open' = TRUE
    /\ cleanups' = [n \in JobNames |-> 0]
    /\ cancelled' = {}
    /\ exited' = FALSE
    /\ UNCHANGED <<now, timer_state, launchLog, normVars, ingestVars, extVars>>

NextTimer ==
    \/ \E n \in JobNames, readOk \in BOOLEAN : Register(n, readOk)
    \/ Start
    \/ \E failed \in SUBSET (1..MaxTasks) : Tick(failed)
    \/ \E u \in units : JobStart(u)
    \/ \E u \in units, o \in {"returned", "raised", "exit"} : JobDone(u, o)
    \/ \E writeOk \in BOOLEAN : Stop(writeOk)
    \/ \E u \in units : RunTaskCancelled(u)
    \/ CrashRestart

(***************************************************************************)
(* Ingestor                                                                *)
(***************************************************************************)
\* src_version IS NULL (Python None): the upsert of a new row sets no version.
NullVersion == 0

\* src_version = -1: the playlist is new, or its stored version was not read.
NewVersion == -1

\* What a fetch of one playlist's slides can meet: the request fails, the
\* SELECT of src_version fails, the SELECT of the media ids fails.
FetchOutcomes == {"ok", "neterr", "verr", "merr"}

RECURSIVE Ascending(_)
Ascending(S) ==
    IF S = {} THEN <<>>
    ELSE LET x == CHOOSE x \in S : \A y \in S : x <= y
         IN <<x>> \o Ascending(S \ {x})

\* The slides of a playlist at version v, as the service returns them; the
\* response may name an item twice.
MediaList(v, dup) == Ascending(1..v) \o (IF dup THEN <<1>> ELSE <<>>)

\* The history of an ImportPhotos just constructed; remote holds the account
\* as the last listing found it.
InitRemote ==
    /\ remote = [p \in Playlists |-> [present |-> TRUE, ver |-> 1]]
    /\ importing = FALSE
    /\ cycles = {}
    /\ callNo = 0
    /\ listings = 0
    /\ itemRequests = {}
    /\ upToDate = {}
    /\ requeued = {}
    /\ staleSeen = {}
    /\ dl = {}
    /\ remoteChanged = FALSE
    /\ visited = {}
    /\ login_failed = FALSE
    /\ lockWaits = {}

\* A fresh installation: no row in imported_playlists or imported_files.
InitIngest ==
    /\ InitRemote
    /\ pl_present = {}
    /\ src_version = [p \in Playlists |-> NullVersion]
    /\ imported_files = {}

\* The guard left out: every call starts a cycle.
AlreadyImportingNever == FALSE

\* if self._importing: return
AlreadyImporting == importing

\* check_for_updates, up to the await of run_in_executor.
CheckForUpdates ==
    /\ ~exited
    /\ callNo < MaxCalls
    /\ callNo' = callNo + 1
    /\ IF AlreadyImporting
       THEN UNCHANGED <<importing, cycles>>
       ELSE /\ importing' = TRUE
            /\ cycles' = cycles \cup {[id |-> callNo + 1, phase |-> "prepare",
                                       queue |-> <<>>]}
    /\ UNCHANGED <<remote, pl_present, src_version, imported_files, listings,
                   itemRequests, upToDate, requeued, staleSeen, dl,
                   remoteChanged, visited, login_failed, lockWaits, timerVars, normVars,
                   extVars>>

\* The upsert of update_imported_playlists_db: a row per listed playlist; an
\* existing row keeps its src_version.
UpsertPlaylists(rows, listed) == rows \cup listed

\* update_playlists runs inside "with db:" on the connection of its
\* _execute_db_operation: the first upsert opens the write transaction, which
\* is committed when the with-block ends, after the loop over the stale ids.
\* The connection holds the write lock during that loop when a playlist was
\* upserted.
HoldsWriteLock(listed) == listed # {}

\* _delete_stale_files_from_disk: glob of <source>_<playlist_id>_* in the
\* import directory.
DeleteStaleFromDisk(dir, stale) == {f \in dir : f[1] \notin stale}

\* _delete_stale_files_from_db, on a connection of its own: with the write
\* lock held by another connection the DELETE ends in "database is locked",
\* which is logged.
DeleteStalePlaylists(rows, stale, busy) == IF busy THEN rows ELSE rows \ stale

DeleteStaleFileRows(rows, stale, busy) ==
    IF busy THEN rows
    ELSE [f \in Paths |-> IF f[1] \in stale THEN 0 ELSE rows[f]]

\* UPDATE imported_playlists SET src_version on a connection that is closed
\* without a commit: the change is rolled back.
UpdateMissingSrcVersion(sv, p, v) == sv

\* The upsert writes the version the listing carries (mutant of UpsertVersion).
UpsertStoresVersion(sv, p, nix) == [sv EXCEPT ![p] = nix]

\* ON CONFLICT(source, playlist_id) DO UPDATE SET playlist_name, last_modified:
\* the row of a listed playlist keeps its src_version, a new row has none.
UpsertVersion(sv, p, nix) == sv

\* The rows a successful DELETE of stale playlists removes take their
\* src_version with them.
DeleteStaleVersions(sv, stale, busy) ==
    [p \in Playlists |-> IF p \in stale /\ ~busy THEN NullVersion ELSE sv[p]]

\* src_version of every playlist after update_imported_playlists_db and
\* get_playlist_media have gone through the listed playlists ps.
RECURSIVE VersionsAfter(_, _, _, _, _)
VersionsAfter(sv, ps, existing, r, fo) ==
    IF ps = <<>> THEN sv
    ELSE LET p == Head(ps)
             up == UpsertVersion(sv, p, r[p].ver)
             read == p \in existing /\ fo[p] \notin {"neterr", "verr"}
             upd == IF read /\ up[p] = NullVersion
                    THEN UpdateMissingSrcVersion(up, p, r[p].ver)
                    ELSE up
         IN VersionsAfter(upd, Tail(ps), existing, r, fo)

\* The version get_single_playlist_media compares with the remote one.
SrcVersionFor(p, status, nix, fo) ==
    IF status = "new" \/ fo = "verr" THEN NewVersion
    ELSE UpdateMissingSrcVersion(src_version, p, nix)[p]

ExistingMediaIds(p, sv, fo) ==
    IF sv # NewVersion /\ fo # "merr"
    THEN {m \in Media : <<p, m>> \in imported_files}
    ELSE {}

\* The loop over media_list with seen_ids.
RECURSIVE Slides(_, _, _, _, _)
Slides(list, i, seen, sv, existing) ==
    IF i > Len(list) THEN <<>>
    ELSE LET m == list[i]
             rest == Slides(list, i + 1, seen \cup {m}, sv, existing)
         IN IF m \in seen THEN rest
            ELSE IF sv = NewVersion \/ m \notin existing THEN <<m>> \o rest
            ELSE rest

\* src_version == nix_lastVersion
IsUpToDate(sv, nix) == sv = nix

GetSinglePlaylistMedia(p, status, nix, fo, dup) ==
    IF fo = "neterr" THEN <<>>
    ELSE LET sv == SrcVersionFor(p, status, nix, fo)
         IN IF IsUpToDate(sv, nix) THEN <<>>
            ELSE Slides(MediaList(nix, dup), 1, {}, sv, ExistingMediaIds(p, sv, fo))

StatusOf(p, existing) == IF p \in existing THEN "update" ELSE "new"

\* get_playlist_media: the slides of every playlist of to_import.
RECURSIVE GetPlaylistMedia(_, _, _, _, _)
GetPlaylistMedia(ps, existing, r, fo, dups) ==
    IF ps = <<>> THEN <<>>
    ELSE LET p == Head(ps)
             sl == GetSinglePlaylistMedia(p, StatusOf(p, existing), r[p].ver,
                                          fo[p], p \in dups)
         IN [i \in 1..Len(sl) |-> <<p, sl[i]>>]
            \o GetPlaylistMedia(Tail(ps), existing, r, fo, dups)

Range(q) == {q[i] : i \in 1..Len(q)}

\* What the remote account can hold when it is listed: per playlist, whether
\* it is there and its version counter; version v lists the items 1..v.
RemoteStates == [Playlists -> [present : BOOLEAN, ver : 1..MaxVersion]]

\* The enabled sources in the order of the configuration; get_source_playlists
\* does something for nixplay only.
Sources == <<"nixplay", "other">>

\* How the listing of the nixplay playlists ends: with the playlists, with a
\* GetPlaylistsError, or with a refused login.
ListingOutcomes == {"ok", "error", "login"}

\* _prepare_media_for_download in the thread pool, with the account in state
\* r, and the rest of check_for_updates once it has returned: the download
\* unit of the source and the unit of the process_images sweep are created.
Prepare(c, r, lo, fo, dups) ==
    /\ c \in cycles
    /\ c.phase = "prepare"
    /\ listings' = listings + 1
    /\ ~exited
    /\ IF lo # "ok"
       THEN \* GetPlaylistsError leaves the loop over the sources and
            \* check_for_updates; at a refused login sys.exit() raises
            \* SystemExit, which leaves the job and ends the event loop
            /\ r = remote
            /\ cycles' = IF lo = "login" THEN {} ELSE cycles \ {c}
            /\ exited' = (lo = "login")
            /\ login_failed' = (login_failed \/ lo = "login")
            /\ lockWaits' = {}
            /\ visited' = {Sources[1]}
            /\ UNCHANGED <<remote, remoteChanged, pl_present, import_dir,
                           file_rows, sweepReq, itemRequests, upToDate,
                           requeued, staleSeen, src_version>>
       ELSE LET listed == {p \in Playlists : r[p].present}
                existing == pl_present
                reconciled == listed # {}
                stale == IF reconciled THEN existing \ listed ELSE {}
                busy == HoldsWriteLock(listed)
                q == GetPlaylistMedia(Ascending(listed), existing, r, fo, dups)
                dir == DeleteStaleFromDisk(import_dir, stale)
            IN /\ exited' = FALSE
               /\ visited' = Range(Sources)
               /\ login_failed' = login_failed
               /\ lockWaits' = IF busy THEN stale ELSE {}
               /\ src_version' = VersionsAfter(
                                     DeleteStaleVersions(src_version, stale, busy),
                                     Ascending(listed), existing, r, fo)
               /\ remote' = r
               /\ remoteChanged' = (remoteChanged \/ (listings > 0 /\ r # remote))
               /\ pl_present' = DeleteStalePlaylists(
                                    UpsertPlaylists(pl_present, listed), stale, busy)
               /\ file_rows' = DeleteStaleFileRows(file_rows, stale, busy)
               /\ import_dir' = dir
               /\ cycles' = IF q = <<>> THEN cycles \ {c}
                            ELSE (cycles \ {c}) \cup
                                 {[c EXCEPT !.phase = "download", !.queue = q]}
               /\ sweepReq' = [f \in Paths |->
                                 IF f \in dir THEN sweepReq[f] + 1 ELSE sweepReq[f]]
               /\ itemRequests' = listed
               /\ upToDate' = {p \in listed \cap existing :
                                 src_version[p] = r[p].ver}
               /\ requeued' = requeued \cup (Range(q) \cap imported_files)
               /\ staleSeen' = (staleSeen \ listed) \cup (existing \ listed)
    /\ UNCHANGED <<imported_files, importing, callNo, dl, now, timer_state, tasks,
                   running, units, restarts, launchLog, stopped, db_open, cleanups,
                   cancelled, extVars, out_dir, file_locks, singleReq, reqCount, dropped,
                   deletes, twice, fullOk>>

\* _download_single_item_async_throttled for the next item of the batch:
\* the download, the imported_files record, and the unit that normalizes the
\* file; a failed download leaves nothing behind.
Download(c, o) ==
    /\ ~exited
    /\ c \in cycles
    /\ c.phase = "download"
    /\ LET f == Head(c.queue)
           rest == Tail(c.queue)
       IN /\ cycles' = (cycles \ {c}) \cup
                       {[c EXCEPT !.queue = rest,
                                  !.phase = IF rest = <<>> THEN "wait" ELSE @]}
          /\ IF o = "fail"
             THEN UNCHANGED <<import_dir, imported_files, singleReq, dl>>
             ELSE /\ import_dir' = import_dir \cup {f}
                  /\ imported_files' = imported_files \cup {f}
                  /\ singleReq' = [singleReq EXCEPT ![f] = @ + 1]
                  /\ dl' = dl \cup {<<c.id, f>>}
    /\ UNCHANGED <<remote, pl_present, src_version, importing, callNo, listings,
                   itemRequests, upToDate, requeued, staleSeen, remoteChanged,
                   visited, login_failed, lockWaits,
                   timerVars, extVars, out_dir, file_rows, file_locks,
                   sweepReq, reqCount, dropped, deletes, twice, fullOk>>

\* _wait_for_image_processing_completion at the end of save_downloaded_media:
\* the download unit of the cycle ends once the files it downloaded have been
\* through the normalizer.
DownloadsDone(c) ==
    /\ ~exited
    /\ c \in cycles
    /\ c.phase = "wait"
    /\ \A f \in Paths : singleReq[f] = 0
    /\ cycles' = cycles \ {c}
    /\ UNCHANGED <<remote, pl_present, src_version, imported_files, importing,
                   callNo, listings, itemRequests, upToDate, requeued, staleSeen,
                   dl, remoteChanged, visited, login_failed, lockWaits, timerVars, normVars,
                   extVars>>

\* The cycles that have come to a phase of check_for_updates.
InPhase(ph) == {c \in cycles : c.phase = ph}

\* How the normalization of a downloaded file ends in the ingestion runs.
IngestOutcomes == {"ok"}

NextIngest ==
    \/ CheckForUpdates
    \/ \E c \in InPhase("prepare") :
          \E r \in RemoteStates, lo \in ListingOutcomes,
             fo \in [Playlists -> FetchOutcomes], dups \in SUBSET Playlists :
               Prepare(c, r, lo, fo, dups)
    \/ \E c \in InPhase("download"), o \in {"ok", "fail"} : Download(c, o)
    \/ \E c \in InPhase("wait") : DownloadsDone(c)
    \/ \E f \in Paths, o \in IngestOutcomes : SemTask(f, o)
    \/ \E f \in Paths, o \in IngestOutcomes : SingleTask(f, o)

(***************************************************************************)
(* Download throttling                                                     *)
(***************************************************************************)
Items == 1..MaxItems

\* No save_downloaded_media call has been made.
InitThrottle ==
    /\ saving = FALSE
    /\ max_concurrent_downloads = 1
    /\ max_concurrent_db_operations = 1
    /\ download_batch_size = 1
    /\ total_items = 0
    /\ batch_i = 0
    /\ download_semaphore = 0
    /\ db_semaphore = 0
    /\ item_pc = [i \in Items |-> "queued"]
    /\ file_records = {}
    /\ image_processing_tasks = {}
    /\ results = {}

\* An acquire that never waits.
AcquireAlways(value) == TRUE

\* asyncio.Semaphore.acquire returns at once while the value is positive and
\* waits otherwise.
CanAcquire(value) == value > 0

Count(pc) == Cardinality({i \in Items : item_pc[i] = pc})

\* The items of the batch media_items[i : i + download_batch_size].
Batch(i) == {k \in Items : i < k /\ k <= i + download_batch_size /\ k <= total_items}

\* save_downloaded_media with n items, under a configuration of the three
\* throttling options: the two semaphores are created.
SaveDownloadedMedia(n, downloads, db_operations, batch_size) ==
    /\ ~saving
    /\ saving' = TRUE
    /\ max_concurrent_downloads' = downloads
    /\ max_concurrent_db_operations' = db_operations
    /\ download_batch_size' = batch_size
    /\ total_items' = n
    /\ batch_i' = 0
    /\ download_semaphore' = downloads
    /\ db_semaphore' = db_operations
    /\ item_pc' = [i \in Items |-> "queued"]
    /\ file_records' = {}
    /\ image_processing_tasks' = {}
    /\ results' = {}
    /\ UNCHANGED restOfThrottle

\* One turn of the for loop: the units of the batch are created and gathered.
\* The turn starts once the gather of the batch before it has returned.
StartBatch ==
    /\ saving
    /\ batch_i < total_items
    /\ \A k \in Items : k <= batch_i => item_pc[k] = "done"
    /\ item_pc' = [k \in Items |-> IF k \in Batch(batch_i) THEN "waiting"
                                   ELSE item_pc[k]]
    /\ batch_i' = batch_i + download_batch_size
    /\ UNCHANGED <<saving, max_concurrent_downloads, max_concurrent_db_operations,
                   download_batch_size, total_items, download_semaphore,
                   db_semaphore, unitVars, restOfThrottle>>

\* async with download_semaphore, then the transfer is handed to the pool.
AcquireDownload(k) ==
    /\ item_pc[k] = "waiting"
    /\ CanAcquire(download_semaphore)
    /\ download_semaphore' = download_semaphore - 1
    /\ item_pc' = [item_pc EXCEPT ![k] = "transfer"]
    /\ UNCHANGED <<saving, max_concurrent_downloads, max_concurrent_db_operations,
                   download_batch_size, total_items, batch_i, db_semaphore,
                   unitVars, restOfThrottle>>

\* _download_file_sync has returned or raised; a failed transfer leaves the
\* unit through the except clause and the semaphore is released.
TransferDone(k, ok) ==
    /\ item_pc[k] = "transfer"
    /\ IF ok
       THEN /\ item_pc' = [item_pc EXCEPT ![k] = "dbwait"]
            /\ UNCHANGED download_semaphore
       ELSE /\ item_pc' = [item_pc EXCEPT ![k] = "done"]
            /\ download_semaphore' = download_semaphore + 1
    /\ UNCHANGED <<saving, max_concurrent_downloads, max_concurrent_db_operations,
                   download_batch_size, total_items, batch_i, db_semaphore,
                   unitVars, restOfThrottle>>

\* async with db_semaphore, then _insert_file_record is handed to the pool.
AcquireDb(k) ==
    /\ item_pc[k] = "dbwait"
    /\ CanAcquire(db_semaphore)
    /\ db_semaphore' = db_semaphore - 1
    /\ item_pc' = [item_pc EXCEPT ![k] = "dbwrite"]
    /\ UNCHANGED <<saving, max_concurrent_downloads, max_concurrent_db_operations,
                   download_batch_size, total_items, batch_i, download_semaphore,
                   unitVars, restOfThrottle>>

\* _insert_file_record has returned.  The row is committed when the insert
\* went through (ok); a failing insert is caught inside _insert_file_record,
\* which logs a warning and returns, so the unit goes on either way:
\* asyncio.sleep(0.1) with both semaphores held.
WriteDone(k, ok) ==
    /\ item_pc[k] = "dbwrite"
    /\ file_records' = IF ok THEN file_records \cup {k} ELSE file_records
    /\ item_pc' = [item_pc EXCEPT ![k] = "dbsleep"]
    /\ UNCHANGED <<saving, max_concurrent_downloads, max_concurrent_db_operations,
                   download_batch_size, total_items, batch_i, download_semaphore,
                   db_semaphore, image_processing_tasks, results, restOfThrottle>>

\* The sleep is over: db_semaphore is released, the normalization of the file
\* is started (_start_image_processing_async), the unit returns True and
\* download_semaphore is released.
UnitDone(k) ==
    /\ item_pc[k] = "dbsleep"
    /\ item_pc' = [item_pc EXCEPT ![k] = "done"]
    /\ db_semaphore' = db_semaphore + 1
    /\ download_semaphore' = download_semaphore + 1
    /\ image_processing_tasks' = image_processing_tasks \cup {k}
    /\ results' = results \cup {k}
    /\ UNCHANGED <<saving, max_concurrent_downloads, max_concurrent_db_operations,
                   download_batch_size, total_items, batch_i, file_records,
                   restOfThrottle>>

NextThrottle ==
    \/ \E n \in Items, downloads \in 1..MaxLimit, db_operations \in 1..MaxLimit,
          batch_size \in 1..MaxBatch :
            SaveDownloadedMedia(n, downloads, db_operations, batch_size)
    \/ StartBatch
    \/ \E k \in Items : AcquireDownload(k)
    \/ \E k \in Items, ok \in BOOLEAN : TransferDone(k, ok)
    \/ \E k \in Items : AcquireDb(k)
    \/ \E k \in Items, ok \in BOOLEAN : WriteDone(k, ok)
    \/ \E k \in Items : UnitDone(k)

(***************************************************************************)
(* Catalog insert: ImageCache.__insert_file (insert_file, and               *)
(* insert_file_async in the threads of the default executor) and           *)
(* __insert_files_batch (the scan), all on the one connection self.__db.   *)
(* One action is one statement of one thread.                              *)
(***************************************************************************)
Dirs == {1, 2}
BaseNames == {1}

\* The unique key of table file: (folder, basename.extension).
CatFiles == Dirs \X BaseNames

\* The threads that use the connection: the event loop's thread and a worker
\* of the default executor, or two workers.
CallIds == {1, 2}
Tabs == {"folder", "file", "meta"}

\* The lists of files update_cache hands to __insert_files_batch.
Batches == SUBSET CatFiles \ {{}}

NoCall == [pc |-> "idle", kind |-> "insert", files |-> {}, todo |-> {}, wrote |-> {}]

\* ImageCache.__init__: one connection, a fresh store.
InitCat ==
    /\ folder_tab = {}
    /\ file_tab = [f \in CatFiles |-> 0]
    /\ meta_tab = {}
    /\ disk_folder = {}
    /\ disk_file = [f \in CatFiles |-> 0]
    /\ disk_meta = {}
    /\ txn = {}
    /\ ins = [c \in CallIds |-> NoCall]
    /\ insCalls = 0
    /\ inserted = [f \in CatFiles |-> 0]

\* for file in files: the list in the order of its paths.
FirstFile(S) ==
    CHOOSE f \in S : \A g \in S : f[1] < g[1] \/ (f[1] = g[1] /\ f[2] <= g[2])

Min2(n) == IF n > 2 THEN 2 ELSE n

\* The writes the statement of call c on table t adds to the transaction.
Writes(c, t) == {<<c, f, t>> : f \in ins[c].files}

\* A call has left its with-block: the next file of the fallback loop, or the
\* end of the call (the thread is idle; files keeps what its last call was
\* for).
Leave(call) ==
    IF call.kind = "fallback" /\ call.todo # {}
    THEN [call EXCEPT !.pc = "folder", !.files = {FirstFile(call.todo)},
                      !.todo = call.todo \ {FirstFile(call.todo)}, !.wrote = {}]
    ELSE [NoCall EXCEPT !.files = call.files]

\* insert_file / insert_file_async with file_id = None.
InsertFileCall(c, f) ==
    /\ ins[c].pc = "idle"
    /\ insCalls < MaxInserts
    /\ insCalls' = insCalls + 1
    /\ ins' = [ins EXCEPT ![c] = [pc |-> "folder", kind |-> "insert", files |-> {f},
                                  todo |-> {}, wrote |-> {}]]
    /\ UNCHANGED <<folder_tab, file_tab, meta_tab, disk_folder, disk_file, disk_meta,
                   txn, inserted, restOfCat>>

\* update_cache: one batch handed to __insert_files_batch.
InsertFilesBatch(c, S) ==
    /\ ins[c].pc = "idle"
    /\ insCalls < MaxInserts
    /\ insCalls' = insCalls + 1
    /\ ins' = [ins EXCEPT ![c] = [pc |-> "folder", kind |-> "batch", files |-> S,
                                  todo |-> {}, wrote |-> {}]]
    /\ UNCHANGED <<folder_tab, file_tab, meta_tab, disk_folder, disk_file, disk_meta,
                   txn, inserted, restOfCat>>

\* INSERT OR IGNORE INTO folder(name): opens the transaction of the
\* connection when none is open.
FolderStmt(c) ==
    /\ ins[c].pc = "folder"
    /\ folder_tab' = folder_tab \cup {f[1] : f \in ins[c].files}
    /\ txn' = txn \cup Writes(c, "folder")
    /\ ins' = [ins EXCEPT ![c].pc = "file", ![c].wrote = @ \cup {"folder"}]
    /\ UNCHANGED <<file_tab, meta_tab, disk_folder, disk_file, disk_meta, insCalls,
                   inserted, restOfCat>>

\* INSERT OR IGNORE INTO file(...) VALUES((SELECT folder_id from folder where
\* name = ?), ...): without the folder row folder_id is NULL and the row is
\* ignored.
FileRows(rows, folders, S) ==
    [f \in CatFiles |->
        IF f \in S /\ f[1] \in folders THEN InsertOrIgnore(rows, f)[f] ELSE rows[f]]

\* __insert_metadata(cursor, file_path, meta): its body is "pass", table meta
\* is left as it is.
InsertMetadata(rows, f) == rows

RECURSIVE MetaInserts(_, _)
\* for file_path, meta in meta_inserts: __insert_metadata for each file of
\* the batch whose metadata was extracted.
MetaInserts(rows, S) ==
    IF S = {} THEN rows
    ELSE MetaInserts(InsertMetadata(rows, FirstFile(S)), S \ {FirstFile(S)})

\* The file statement; in a batch it is executemany over the files, followed
\* by the loop over meta_inserts.
FileStmt(c) ==
    /\ ins[c].pc = "file"
    /\ file_tab' = FileRows(file_tab, folder_tab, ins[c].files)
    /\ meta_tab' = IF ins[c].kind = "batch" THEN MetaInserts(meta_tab, ins[c].files)
                   ELSE meta_tab
    /\ txn' = txn \cup Writes(c, "file")
    /\ ins' = [ins EXCEPT ![c].pc = IF ins[c].kind = "batch" THEN "exit" ELSE "meta",
                          ![c].wrote = @ \cup {"file"}]
    /\ UNCHANGED <<folder_tab, disk_folder, disk_file, disk_meta, insCalls,
                   inserted, restOfCat>>

\* The subselect yields an id without looking for the row (mutant of
\* MetaFileIds).
MetaFileIdsAny(rows, f) == {f}

\* (SELECT file_id from all_data where fname = ?): no id without a file row.
MetaFileIds(rows, f) == IF rows[f] > 0 THEN {f} ELSE {}

\* The metadata insert of __insert_file: a failure is logged and the call goes
\* on (__insert_metadata of the batch does nothing).
MetaStmt(c, ok) ==
    /\ ins[c].pc = "meta"
    /\ LET done == ok /\ \A f \in ins[c].files : MetaFileIds(file_tab, f) # {} IN
        /\ meta_tab' = IF done THEN meta_tab \cup ins[c].files ELSE meta_tab
        /\ txn' = IF done THEN txn \cup Writes(c, "meta") ELSE txn
        /\ ins' = [ins EXCEPT ![c].pc = "exit",
                              ![c].wrote = IF done THEN @ \cup {"meta"} ELSE @]
    /\ UNCHANGED <<folder_tab, file_tab, disk_folder, disk_file, disk_meta, insCalls,
                   inserted, restOfCat>>

\* The with-block of self.__db ends: sqlite3 commits the transaction of the
\* connection, whichever threads wrote into it.
Commit(c) ==
    /\ ins[c].pc = "exit"
    /\ disk_folder' = folder_tab
    /\ disk_file' = file_tab
    /\ disk_meta' = meta_tab
    /\ txn' = {}
    /\ inserted' = [f \in CatFiles |->
                      Min2(inserted[f] + Cardinality({d \in CallIds : <<d, f, "file">> \in txn}))]
    /\ ins' = [ins EXCEPT ![c] = Leave(ins[c])]
    /\ UNCHANGED <<folder_tab, file_tab, meta_tab, insCalls, restOfCat>>

\* The file statement raises (sqlite3.OperationalError) inside the with-block:
\* sqlite3 rolls the transaction of the connection back, the exception is
\* logged; a batch falls back to one __insert_file per file.
Raise(c) ==
    /\ ins[c].pc = "file"
    /\ folder_tab' = disk_folder
    /\ file_tab' = disk_file
    /\ meta_tab' = disk_meta
    /\ txn' = {}
    /\ ins' = [ins EXCEPT ![c] =
                 IF ins[c].kind = "batch"
                 THEN Leave([ins[c] EXCEPT !.kind = "fallback", !.todo = ins[c].files])
                 ELSE Leave(ins[c])]
    /\ UNCHANGED <<disk_folder, disk_file, disk_meta, insCalls, inserted, restOfCat>>

NextCat ==
    \/ \E c \in CallIds, f \in CatFiles : InsertFileCall(c, f)
    \/ \E c \in CallIds, S \in Batches : InsertFilesBatch(c, S)
    \/ \E c \in CallIds : FolderStmt(c)
    \/ \E c \in CallIds : FileStmt(c)
    \/ \E c \in CallIds, ok \in BOOLEAN : MetaStmt(c, ok)
    \/ \E c \in CallIds : Commit(c)
    \/ \E c \in CallIds : Raise(c)

(***************************************************************************)
(* Catalog purge: ImageCache.purge_files and                               *)
(* __purge_missing_files_and_folders at the end of update_cache, on        *)
(* self.__db; ImportPhotos._delete_stale_files_from_db on a connection of  *)
(* its own.                                                                *)
(***************************************************************************)
InitPurge ==
    /\ gone_dirs = {}
    /\ gone_files = {}
    /\ purge_files = FALSE
    /\ purge_req = "none"
    /\ purge_pc = "idle"
    /\ cascaded = FALSE

\* os.path.exists(fname)
Exists(f) == f[1] \notin gone_dirs /\ f \notin gone_files

\* A folder is removed from disk (or its mount goes away), with what is in it.
RemoveDir(d) ==
    /\ d \notin gone_dirs
    /\ gone_dirs' = gone_dirs \cup {d}
    /\ UNCHANGED <<gone_files, purge_files, purge_req, purge_pc, cascaded, catVars,
                   restOfPurge>>

\* A file is removed from a folder that stays.
RemoveFile(f) ==
    /\ Exists(f)
    /\ gone_files' = gone_files \cup {f}
    /\ UNCHANGED <<gone_dirs, purge_files, purge_req, purge_pc, cascaded, catVars,
                   restOfPurge>>

\* What a purge request of the Catalog contract asks for: the purge of
\* folders, or the purge of files as well.
PurgeLevels == {"folders", "files"}

\* purge_files(): the one entry point for a purge request, without a level.
PurgeFiles(level) ==
    /\ ~purge_files
    /\ purge_files' = TRUE
    /\ purge_req' = level
    /\ UNCHANGED <<gone_dirs, gone_files, purge_pc, cascaded, catVars, restOfPurge>>

\* The folder rows whose name is not on disk.
MissingFolders(folders) == folders \cap gone_dirs

\* The file rows whose path is not on disk.
MissingFiles(rows) == {f \in CatFiles : rows[f] > 0 /\ ~Exists(f)}

\* DELETE FROM folder: the file rows of a deleted folder go with it.
CascadeFiles(rows, folders) ==
    [f \in CatFiles |-> IF f[1] \in folders THEN 0 ELSE rows[f]]

\* DELETE FROM file WHERE ...
DeleteFiles(rows, S) == [f \in CatFiles |-> IF f \in S THEN 0 ELSE rows[f]]

\* The meta rows stay when file rows are deleted (mutant of CascadeMeta).
KeepMeta(meta, rows) == meta

\* The meta row of a deleted file row goes with it.
CascadeMeta(meta, rows) == {f \in meta : rows[f] > 0}

\* The transaction of self.__db ends with the with-block of a purge
\* statement: committed, or rolled back when the statement raised.
PurgeEnds(ok, folders, rows) ==
    LET meta == CascadeMeta(meta_tab, rows) IN
    /\ folder_tab' = IF ok THEN folders ELSE disk_folder
    /\ file_tab' = IF ok THEN rows ELSE disk_file
    /\ meta_tab' = IF ok THEN meta ELSE disk_meta
    /\ disk_folder' = IF ok THEN folders ELSE disk_folder
    /\ disk_file' = IF ok THEN rows ELSE disk_file
    /\ disk_meta' = IF ok THEN meta ELSE disk_meta
    /\ cascaded' = (cascaded \/ (ok /\ meta # meta_tab))
    /\ txn' = {}

\* __purge_missing_files_and_folders, the folders: with a missing folder the
\* with-block is entered, and the rows are deleted when the flag is set (a
\* missing folder is only logged otherwise).
PurgeFolders(ok) ==
    /\ purge_pc = "idle"
    /\ LET missing == MissingFolders(folder_tab) IN
       IF missing = {}
       THEN /\ ok
            /\ UNCHANGED <<folder_tab, file_tab, meta_tab, disk_folder, disk_file,
                           disk_meta, txn, cascaded>>
       ELSE IF purge_files
            THEN PurgeEnds(ok, folder_tab \ missing, CascadeFiles(file_tab, missing))
            ELSE /\ ok
                 /\ PurgeEnds(TRUE, folder_tab, file_tab)
    /\ purge_pc' = "files"
    /\ UNCHANGED <<gone_dirs, gone_files, purge_files, purge_req, ins, insCalls,
                   inserted, restOfPurge>>

\* __purge_missing_files_and_folders, the files: only with the flag set,
\* which is cleared at the end.
PurgeMissingFiles(ok) ==
    /\ purge_pc = "files"
    /\ IF purge_files /\ MissingFiles(file_tab) # {}
       THEN PurgeEnds(ok, folder_tab, DeleteFiles(file_tab, MissingFiles(file_tab)))
       ELSE /\ ok
            /\ UNCHANGED <<folder_tab, file_tab, meta_tab, disk_folder, disk_file,
                           disk_meta, txn, cascaded>>
    /\ purge_files' = FALSE
    /\ purge_req' = IF purge_files THEN "none" ELSE purge_req
    /\ purge_pc' = "idle"
    /\ UNCHANGED <<gone_dirs, gone_files, ins, insCalls, inserted, restOfPurge>>

\* _delete_stale_files_from_db: DELETE FROM file WHERE source = ? AND
\* playlist = ?, S being the files with that tag, on a connection of its own
\* (foreign_keys=ON): "database is locked" while self.__db holds a
\* transaction, which is logged.
DeleteStaleFiles(S) ==
    /\ IF txn # {}
       THEN UNCHANGED <<file_tab, meta_tab, disk_file, disk_meta, cascaded>>
       ELSE LET rows == DeleteFiles(disk_file, S)
                meta == CascadeMeta(disk_meta, rows)
            IN /\ disk_file' = rows
               /\ disk_meta' = meta
               /\ file_tab' = rows
               /\ meta_tab' = meta
               /\ cascaded' = (cascaded \/ meta # disk_meta)
    /\ UNCHANGED <<folder_tab, disk_folder, txn, ins, insCalls, inserted, gone_dirs,
                   gone_files, purge_files, purge_req, purge_pc, restOfPurge>>

\* The thread of update_cache and insert_file, the purge requests, the disk
\* and the Ingestor's deletion of a stale playlist.  The batch insert of
\* update_cache leaves folder and file rows without meta rows, as an
\* insert_file does whose metadata statement fails.
NextPurge ==
    \/ \E f \in {g \in CatFiles : Exists(g)} : InsertFileCall(1, f)
    \/ FolderStmt(1)
    \/ FileStmt(1)
    \/ \E ok \in BOOLEAN : MetaStmt(1, ok)
    \/ Commit(1)
    \/ Raise(1)
    \/ \E d \in Dirs : RemoveDir(d)
    \/ \E f \in CatFiles : RemoveFile(f)
    \/ \E level \in PurgeLevels : PurgeFiles(level)
    \/ \E ok \in BOOLEAN : PurgeFolders(ok)
    \/ \E ok \in BOOLEAN : PurgeMissingFiles(ok)
    \/ \E S \in Batches : DeleteStaleFiles(S)

(***************************************************************************)
(* Playing the slideshow: ImageCache.get_next_file_from_slideshow and      *)
(* set_played_for_image, called by the viewer's thread on self.__db.       *)
(***************************************************************************)
FileIds == 1..MaxEntries
GroupNums == {1, 2}
Orders == {1, 2}

\* A row of table slideshow (the columns the two methods use).
Entry(g, o, f, p) == [group_num |-> g, order_in_group |-> o, file_id |-> f, played |-> p]

\* The tables save_to_slideshow writes: every file at most once, at a place
\* of its own, played = 0.
Placings ==
    {pl \in [FileIds -> (GroupNums \X Orders) \cup {<<0, 0>>}] :
        \A f, g \in FileIds : (f # g /\ pl[f] # <<0, 0>>) => pl[f] # pl[g]}

TableOf(pl) == {Entry(pl[f][1], pl[f][2], f, 0) : f \in {g \in FileIds : pl[g] # <<0, 0>>}}

\* No get_next_file_from_slideshow call has returned since the tables changed.
NotAsked == [asked |-> FALSE, file_id |-> None]

\* No set_played_for_image call has been made on the present rows.
NoMark == [pc |-> "idle", file_id |-> 0, old |-> {}, count |-> None]

\* Nothing is playing: an empty table, no file.
InitPlay ==
    /\ slideshow = {}
    /\ shown = [f \in FileIds |-> None]
    /\ disk_slideshow = {}
    /\ disk_shown = [f \in FileIds |-> None]
    /\ mark = NoMark
    /\ marks = 0
    /\ next_pic = NotAsked
    /\ served = <<>>
    /\ following = FALSE

\* _is_active_slideshow: SELECT COUNT(*) FROM slideshow WHERE played = 0 is
\* above 0.
IsActiveSlideshow(table) == \E s \in table : s.played = 0

\* The reverse order.
Descending(a, b) ==
    \/ a.group_num > b.group_num
    \/ a.group_num = b.group_num /\ a.order_in_group >= b.order_in_group

\* ORDER BY s.group_num ASC, s.order_in_group ASC
Before(a, b) ==
    \/ a.group_num < b.group_num
    \/ a.group_num = b.group_num /\ a.order_in_group <= b.order_in_group

\* FROM slideshow s LEFT JOIN file f: every entry, with or without its file.
LeftJoinFile(table, files) == table

\* FROM slideshow s JOIN file f ON s.file_id = f.file_id JOIN folder fo ...:
\* the entries whose file row exists.
JoinFile(table, files) == {s \in table : files[s.file_id] # None}

\* The SELECT of get_next_file_from_slideshow: WHERE s.played = 0 ORDER BY
\* ... LIMIT 1; None when no row comes back.
NextFromSlideshow(table, files) ==
    LET rows == {s \in JoinFile(table, files) : s.played = 0} IN
    IF rows = {} THEN None
    ELSE (CHOOSE s \in rows : \A t \in rows : Before(s, t)).file_id

GetNextFileFromSlideshow ==
    /\ mark.pc = "idle"
    /\ next_pic' = [asked |-> TRUE, file_id |-> NextFromSlideshow(slideshow, shown)]
    /\ following' = (following /\ ~next_pic.asked)
    /\ served' = IF ~following' THEN <<>>
                 ELSE IF NextFromSlideshow(slideshow, shown) # None
                 THEN Append(served, NextFromSlideshow(slideshow, shown)) ELSE served
    /\ UNCHANGED <<slideshow, shown, disk_slideshow, disk_shown, mark, marks, restOfPlay>>

\* set_played_for_image(file_id) enters its with-block.
SetPlayedForImage(f) ==
    /\ mark.pc = "idle"
    /\ marks < MaxMarks
    /\ marks' = marks + 1
    /\ mark' = [pc |-> "slideshow", file_id |-> f,
                old |-> {s \in disk_slideshow : s.file_id = f}, count |-> disk_shown[f]]
    /\ next_pic' = NotAsked
    /\ following' = (following /\ next_pic.asked /\ next_pic.file_id = f)
    /\ served' = IF following' THEN served ELSE <<>>
    /\ UNCHANGED <<slideshow, shown, disk_slideshow, disk_shown, restOfPlay>>

\* UPDATE slideshow SET played = 1 WHERE file_id = ?
UpdateSlideshow ==
    /\ mark.pc = "slideshow"
    /\ slideshow' = {IF s.file_id = mark.file_id THEN [s EXCEPT !.played = 1] ELSE s :
                        s \in slideshow}
    /\ mark' = [mark EXCEPT !.pc = "file"]
    /\ UNCHANGED <<shown, disk_slideshow, disk_shown, marks, next_pic, playHist,
                   restOfPlay>>

\* UPDATE file SET displayed_count = displayed_count + 1 ... WHERE file_id = ?
UpdateFile ==
    /\ mark.pc = "file"
    /\ shown' = IF shown[mark.file_id] = None THEN shown
                ELSE [shown EXCEPT ![mark.file_id] = @ + 1]
    /\ mark' = [mark EXCEPT !.pc = "exit"]
    /\ UNCHANGED <<slideshow, disk_slideshow, disk_shown, marks, next_pic, playHist,
                   restOfPlay>>

\* The with-block ends: commit.
MarkCommit ==
    /\ mark.pc = "exit"
    /\ disk_slideshow' = slideshow
    /\ disk_shown' = shown
    /\ mark' = [mark EXCEPT !.pc = "idle"]
    /\ UNCHANGED <<slideshow, shown, marks, next_pic, playHist, restOfPlay>>

\* Leaving the with-block without a rollback (mutant of RolledBack).
KeepWrites(written, committed) == written

\* An exception leaves the with-block: the connection rolls back and shows
\* the committed rows again.
RolledBack(written, committed) == committed

\* One of the two statements raises: rollback, the exception is logged.
MarkRaise ==
    /\ mark.pc \in {"slideshow", "file"}
    /\ slideshow' = RolledBack(slideshow, disk_slideshow)
    /\ shown' = RolledBack(shown, disk_shown)
    /\ mark' = [mark EXCEPT !.pc = "idle"]
    /\ following' = FALSE
    /\ served' = <<>>
    /\ UNCHANGED <<disk_slideshow, disk_shown, marks, next_pic, restOfPlay>>

\* The store holds no file and no slideshow yet.
NoStore == mark.pc = "idle" /\ slideshow = {} /\ \A f \in FileIds : shown[f] = None

\* save_to_slideshow has written a new table for the files of the store.
NewTable(pl) ==
    /\ NoStore
    /\ slideshow' = TableOf(pl)
    /\ disk_slideshow' = TableOf(pl)
    /\ shown' = [f \in FileIds |-> 0]
    /\ disk_shown' = [f \in FileIds |-> 0]
    /\ next_pic' = NotAsked
    /\ mark' = NoMark
    /\ served' = <<>>
    /\ following' = TRUE
    /\ UNCHANGED <<marks, restOfPlay>>

\* __purge_missing_files_and_folders: DELETE FROM file WHERE file_id = ?; the
\* entries of the slideshow stay.
PurgeFile(f) ==
    /\ mark.pc = "idle"
    /\ shown[f] # None
    /\ shown' = [shown EXCEPT ![f] = None]
    /\ disk_shown' = [disk_shown EXCEPT ![f] = None]
    /\ next_pic' = NotAsked
    /\ mark' = NoMark
    /\ following' = FALSE
    /\ served' = <<>>
    /\ UNCHANGED <<slideshow, disk_slideshow, marks, restOfPlay>>

NextPlay ==
    \/ \E pl \in IF NoStore THEN Placings ELSE {} : NewTable(pl)
    \/ \E f \in FileIds : PurgeFile(f)
    \/ GetNextFileFromSlideshow
    \/ \E f \in FileIds : SetPlayedForImage(f)
    \/ UpdateSlideshow
    \/ UpdateFile
    \/ MarkCommit
    \/ MarkRaise

(***************************************************************************)
(* Sequencer: NewSlideshow.generate_slideshow.  One action is the code      *)
(* between two requests to the randomness service.                         *)
(***************************************************************************)
\* folder_id 1 holds the landscape files, 2 the portrait files; 3 is any
\* other folder.
FolderIds == {1, 2, 3}

\* The file tables of 0..MaxFiles rows.
FileTables == UNION {[1..n -> FolderIds] : n \in 0..MaxFiles}

\* [fid for fid in file_id_list if folder_map[fid] == folder]
IdsIn(file_id_list, fmap, folder) ==
    SelectSeq(file_id_list, LAMBDA fid : fmap[fid] = folder)

Max(a, b) == IF a >= b THEN a ELSE b

\* Python's round(a / b) for b > 0: to the nearest integer, a half to the
\* even one.
Round(a, b) ==
    LET q == a \div b
        r == a - q * b
    IN  IF 2 * r < b THEN q
        ELSE IF 2 * r > b THEN q + 1
        ELSE IF q % 2 = 0 THEN q ELSE q + 1

\* math.ceil(total_images / self.target_set_size)
NumGroups(total_images, target) == (total_images + target - 1) \div target

\* The number of minority groups without the test against min_set_size
\* (mutant of MinorityGroups).
HalfOfGroups(num_groups, minority_len, min_size) == num_groups \div 2

\* minority_groups = num_groups // 2, lowered to len(minority_ids) //
\* min_set_size when the minority cannot fill that many groups.
MinorityGroups(num_groups, minority_len, min_size) ==
    IF (num_groups \div 2) * min_size > minority_len
    THEN minority_len \div min_size
    ELSE num_groups \div 2

\* split_ids(ids, count), from its i-th turn on, with rem ids left.
RECURSIVE SplitIds(_, _, _, _)
SplitIds(rem, count, i, min_size) ==
    IF i >= count THEN <<>>
    ELSE LET size == Max(min_size, Round(rem, count - i))
         IN  <<size>> \o SplitIds(rem - size, count, i + 1, min_size)

\* ids[from : from + size]
Slice(ids, from, size) ==
    SubSeq(ids, from + 1, IF from + size > Len(ids) THEN Len(ids) ELSE from + size)

\* The group loop chooses the minority on every turn that has one left
\* (mutant of TakesDominant).
MinorityFirst(i, minority_sizes) == minority_sizes = <<>>

\* if i % 2 == 0 or not minority_sizes
TakesDominant(i, minority_sizes) == i % 2 = 0 \/ minority_sizes = <<>>

\* for i in range(num_groups): the groups from turn i on.
RECURSIVE GroupLoop(_, _, _, _, _, _, _, _, _, _)
GroupLoop(i, num_groups, dominant_sizes, minority_sizes, d_idx, m_idx, dominant_ids, minority_ids, dominant_type, minority_type) ==
    IF i >= num_groups THEN <<>>
    ELSE IF TakesDominant(i, minority_sizes)
    THEN LET size == Head(dominant_sizes) IN
         <<[type |-> dominant_type, ids |-> Slice(dominant_ids, d_idx, size)]>> \o
         GroupLoop(i + 1, num_groups, Tail(dominant_sizes), minority_sizes, d_idx + size,
                   m_idx, dominant_ids, minority_ids, dominant_type, minority_type)
    ELSE LET size == Head(minority_sizes) IN
         <<[type |-> minority_type, ids |-> Slice(minority_ids, m_idx, size)]>> \o
         GroupLoop(i + 1, num_groups, dominant_sizes, Tail(minority_sizes), d_idx,
                   m_idx + size, dominant_ids, minority_ids, dominant_type, minority_type)

\* build_groups_dynamic(file_id_list, folder_map)
BuildGroupsDynamic(file_id_list, fmap, target, min_size) ==
    LET portrait_ids == IdsIn(file_id_list, fmap, 2)
        landscape_ids == IdsIn(file_id_list, fmap, 1)
        dominant_ids == IF Len(portrait_ids) >= Len(landscape_ids)
                        THEN portrait_ids ELSE landscape_ids
        minority_ids == IF dominant_ids = portrait_ids THEN landscape_ids ELSE portrait_ids
        dominant_type == IF dominant_ids = portrait_ids THEN "portrait" ELSE "landscape"
        minority_type == IF dominant_type = "portrait" THEN "landscape" ELSE "portrait"
        num_groups == NumGroups(Len(file_id_list), target)
        minority_groups == MinorityGroups(num_groups, Len(minority_ids), min_size)
        dominant_groups == num_groups - minority_groups
    IN  GroupLoop(0, num_groups,
                  SplitIds(Len(dominant_ids), dominant_groups, 0, min_size),
                  SplitIds(Len(minority_ids), minority_groups, 0, min_size),
                  0, 0, dominant_ids, minority_ids, dominant_type, minority_type)

\* save_to_slideshow: one row (group_num, order_in_group, file_id) per file of
\* every group.
RECURSIVE SlideshowRows(_, _)
SlideshowRows(gs, g_num) ==
    IF gs = <<>> THEN <<>>
    ELSE [order \in 1..Len(Head(gs).ids) |-> <<g_num, order, Head(gs).ids[order]>>] \o
         SlideshowRows(Tail(gs), g_num + 1)

\* The permutations of 1..n, as lists.
Perms(n) == {p \in [1..n -> 1..n] : \A i, j \in 1..n : p[i] = p[j] => i = j}

\* The answers of the service to a request for n values of 1..n_total without
\* replacement.
Answers(n, n_total) ==
    {a \in [1..n -> 1..n_total] : \A i, j \in 1..n : a[i] = a[j] => i = j}

\* Table slideshow with the previous sequence in it.
OldTable == [exists |-> TRUE, old |-> TRUE, written |-> FALSE, rows |-> <<>>,
             error |-> FALSE]

\* NewSlideshow as constructed, before generate_slideshow is called.
InitSeq ==
    /\ seq_pc = "idle"
    /\ folder_map = <<>>
    /\ target_set_size = 1
    /\ min_set_size = 1
    /\ shuffle = FALSE
    /\ all_randomized = <<>>
    /\ random_positions = <<>>
    /\ fell_back = "no"
    /\ groups = <<>>
    /\ seq_table = OldTable
    /\ seq_ret = [returned |-> FALSE, value |-> None]

\* The return value of generate_slideshow after the table is written: the
\* method ends without a return statement.
ReturnAfterSave(gs) == None

\* generate_slideshow up to the first request to the service: the
\* configuration, fetch_file_ids (None without rows, [] when the read fails),
\* the early return.
GenerateSlideshow(files, target, min_size, shuf, readOk) ==
    /\ seq_pc = "idle"
    /\ folder_map' = files
    /\ target_set_size' = target
    /\ min_set_size' = min_size
    /\ shuffle' = shuf
    /\ IF files = <<>> \/ ~readOk
       THEN /\ seq_pc' = "done"
            /\ seq_ret' = [returned |-> TRUE, value |-> None]
            /\ random_positions' = <<>>
       ELSE /\ seq_pc' = IF shuf THEN "shuffle" ELSE "build"
            /\ random_positions' = [i \in 1..Len(files) |-> i]
            /\ UNCHANGED seq_ret
    /\ UNCHANGED <<all_randomized, fell_back, groups, seq_table, restOfSeq>>

\* fetch_random_sequence_large: the size of the next request.
CurrentBatch ==
    IF BATCH_LIMIT < Len(folder_map) - Len(all_randomized)
    THEN BATCH_LIMIT ELSE Len(folder_map) - Len(all_randomized)

\* One request answered: the values not seen before are appended; the loop
\* ends when n_total values are collected.
FetchBatch(data) ==
    /\ seq_pc = "shuffle"
    /\ LET used_values == {all_randomized[i] : i \in 1..Len(all_randomized)}
           new_vals == SelectSeq(data, LAMBDA v : v \notin used_values)
           collected == all_randomized \o new_vals
       IN  /\ new_vals # <<>>
           /\ IF Len(collected) < Len(folder_map)
              THEN /\ all_randomized' = collected
                   /\ UNCHANGED <<seq_pc, random_positions>>
              ELSE /\ all_randomized' = <<>>
                   /\ seq_pc' = "build"
                   /\ random_positions' = SubSeq(collected, 1, Len(folder_map))
    /\ UNCHANGED <<folder_map, target_set_size, min_set_size, shuffle, fell_back, groups,
                   seq_table, seq_ret, restOfSeq>>

\* Returning what was collected so far (mutant of FallbackPositions).
PartialPositions(collected, local) == collected

\* except Exception: return self.fetch_random_sequence_fallback(n_total)
FallbackPositions(collected, local) == local

\* One request fails (HTTP error, timeout, error member, malformed answer):
\* the local shuffle of 1..n_total replaces what was collected.
ServiceFails(local) ==
    /\ seq_pc = "shuffle"
    /\ random_positions' = FallbackPositions(all_randomized, local)
    /\ all_randomized' = <<>>
    /\ fell_back' = IF all_randomized = <<>> THEN "first" ELSE "later"
    /\ seq_pc' = "build"
    /\ UNCHANGED <<folder_map, target_set_size, min_set_size, shuffle, groups, seq_table,
                   seq_ret, restOfSeq>>

\* generate_slideshow goes on: the ids in the order of the positions, the
\* groups, and save_to_slideshow up to its first statement.  DROP TABLE IF
\* EXISTS runs outside a transaction (sqlite3 opens one before INSERT, UPDATE,
\* DELETE and REPLACE only) and is committed at once.  An exception of any
\* statement of save_to_slideshow is logged there, and generate_slideshow
\* ends as after a save.
BuildAndDrop(ok) ==
    /\ seq_pc = "build"
    /\ LET gs == BuildGroupsDynamic(random_positions, folder_map, target_set_size,
                                    min_set_size)
       IN  /\ groups' = gs
           /\ IF ok
              THEN /\ seq_table' = [seq_table EXCEPT !.exists = FALSE, !.old = FALSE]
                   /\ seq_pc' = "create"
                   /\ UNCHANGED seq_ret
              ELSE /\ seq_table' = [seq_table EXCEPT !.error = TRUE]
                   /\ seq_pc' = "done"
                   /\ seq_ret' = [returned |-> TRUE, value |-> ReturnAfterSave(gs)]
    /\ UNCHANGED <<folder_map, target_set_size, min_set_size, shuffle, all_randomized,
                   random_positions, fell_back, restOfSeq>>

\* CREATE TABLE IF NOT EXISTS slideshow (...), committed at once as well.
CreateTable(ok) ==
    /\ seq_pc = "create"
    /\ IF ok
       THEN /\ seq_table' = [seq_table EXCEPT !.exists = TRUE]
            /\ seq_pc' = "insert"
            /\ UNCHANGED seq_ret
       ELSE /\ seq_table' = [seq_table EXCEPT !.error = TRUE]
            /\ seq_pc' = "done"
            /\ seq_ret' = [returned |-> TRUE, value |-> ReturnAfterSave(groups)]
    /\ UNCHANGED <<folder_map, target_set_size, min_set_size, shuffle, all_randomized,
                   random_positions, fell_back, groups, restOfSeq>>

\* The SELECT of the files' columns, the INSERT of all rows and the commit at
\* the end of the with-block; a failure rolls the rows back.
InsertAndCommit(ok) ==
    /\ seq_pc = "insert"
    /\ seq_table' = IF ok THEN [seq_table EXCEPT !.written = TRUE,
                                                 !.rows = SlideshowRows(groups, 1)]
                    ELSE [seq_table EXCEPT !.error = TRUE]
    /\ seq_pc' = "done"
    /\ seq_ret' = [returned |-> TRUE, value |-> ReturnAfterSave(groups)]
    /\ UNCHANGED <<folder_map, target_set_size, min_set_size, shuffle, all_randomized,
                   random_positions, fell_back, groups, restOfSeq>>

NextSeq ==
    \/ \E files \in IF seq_pc = "idle" THEN FileTables ELSE {} :
          \E target \in 1..MaxTarget, min_size \in 1..MaxMin, shuf, readOk \in BOOLEAN :
              GenerateSlideshow(files, target, min_size, shuf, readOk)
    \/ \E data \in IF seq_pc = "shuffle" THEN Answers(CurrentBatch, Len(folder_map)) ELSE {} :
          FetchBatch(data)
    \/ \E local \in IF seq_pc = "shuffle" THEN Perms(Len(folder_map)) ELSE {} :
          ServiceFails(local)
    \/ \E ok \in BOOLEAN : BuildAndDrop(ok)
    \/ \E ok \in BOOLEAN : CreateTable(ok)
    \/ \E ok \in BOOLEAN : InsertAndCommit(ok)

\* The components other than scheduler, normalizer and ingestor, as
\* constructed.
(***************************************************************************)
(* Catalog scan: update_cache                                              *)
(***************************************************************************)

\* The watched folders and the files that can appear in them.
ScanDirs == {1, 2}
ScanFiles == {<<1, 1>>, <<1, 2>>, <<2, 1>>}

\* last_modified of a folder row that __update_folder_info never touched.
DefaultLastModified == 0

InitScan ==
    /\ scan_pc = "idle"
    /\ modified_folders = {}
    /\ modified_files = <<>>
    /\ pause_looping = FALSE
    /\ folder_last_modified = [d \in ScanDirs |-> None]
    /\ st_mtime = [d \in ScanDirs |-> 1]
    /\ listdir = {}
    /\ handed = {}
    /\ scan_rows = {}
    /\ walked = FALSE

\* A file is written into a folder: the folder's modification time moves on.
AddFile(f) ==
    /\ f \notin listdir
    /\ listdir' = listdir \cup {f}
    /\ st_mtime' = [st_mtime EXCEPT ![f[1]] = @ + 1]
    /\ UNCHANGED <<scan_pc, modified_folders, modified_files, pause_looping,
                   folder_last_modified, handed, scan_rows, walked, restOfScan>>

\* pause_looping(value), called from the display side at any time.
PauseLooping(value) ==
    /\ value # pause_looping
    /\ pause_looping' = value
    /\ UNCHANGED <<scan_pc, modified_folders, modified_files,
                   folder_last_modified, st_mtime, listdir, handed, scan_rows,
                   walked, restOfScan>>

\* __get_modified_folders: the folders on disk without a row or newer than
\* their row, each with the time read from disk.
GetModifiedFolders ==
    {<<d, st_mtime[d]>> : d \in {e \in ScanDirs : folder_last_modified[e] = None
                                     \/ folder_last_modified[e] < st_mtime[e]}}

RECURSIVE Listing(_)
\* The files of a set in the order the listing yields them.
Listing(S) ==
    IF S = {} THEN <<>>
    ELSE LET f == CHOOSE g \in S : \A h \in S : 10 * g[1] + g[2] <= 10 * h[1] + h[2]
         IN  <<f>> \o Listing(S \ {f})

\* __get_modified_files: the files of these folders that have no file row.
GetModifiedFiles(folders, rows) ==
    Listing({f \in listdir : f \notin rows /\ \E m \in folders : m[1] = f[1]})

\* A drain that counts as finished whatever is left.
DrainedAlways(files) == TRUE

\* "if not self.__modified_files": nothing found by the scan is still pending.
Drained(files) == files = <<>>

\* update_cache is entered.  With nothing pending the disk is walked; pending
\* files of an earlier call are kept as they are.
UpdateCache ==
    /\ scan_pc = "idle"
    /\ scan_pc' = "drain"
    /\ IF modified_files = <<>>
       THEN /\ modified_folders' = GetModifiedFolders
            /\ modified_files' = GetModifiedFiles(GetModifiedFolders, scan_rows)
            /\ walked' = TRUE
       ELSE /\ walked' = FALSE
            /\ UNCHANGED <<modified_folders, modified_files>>
    /\ UNCHANGED <<pause_looping, folder_last_modified, st_mtime, listdir, handed,
                   scan_rows, restOfScan>>

\* One turn of the while loop: the next batch is popped and handed to
\* __insert_files_batch, which creates the folder rows of the files it
\* inserts (written: the files whose rows were committed, by the batch or by
\* the per-file fallback).
DrainBatch(written) ==
    /\ scan_pc = "drain"
    /\ modified_files # <<>>
    /\ ~pause_looping
    /\ LET n == IF Len(modified_files) < scan_batch_size THEN Len(modified_files)
                ELSE scan_batch_size
           current_batch == {modified_files[i] : i \in 1..n}
       IN  /\ written \subseteq current_batch
           /\ modified_files' = SubSeq(modified_files, n + 1, Len(modified_files))
           /\ handed' = handed \cup current_batch
           /\ scan_rows' = scan_rows \cup written
           /\ folder_last_modified' =
                 [d \in ScanDirs |->
                     IF folder_last_modified[d] = None /\ \E f \in written : f[1] = d
                     THEN DefaultLastModified ELSE folder_last_modified[d]]
    /\ UNCHANGED <<scan_pc, modified_folders, pause_looping, st_mtime, listdir,
                   walked, restOfScan>>

\* __update_folder_info: UPDATE folder SET last_modified = modtime for the
\* rows that exist; a failing update is logged.
UpdateFolderInfo(folders, ok) ==
    [d \in ScanDirs |->
        IF ok /\ folder_last_modified[d] # None /\ \E m \in folders : m[1] = d
        THEN (CHOOSE m \in folders : m[1] = d)[2]
        ELSE folder_last_modified[d]]

\* The loop is left, drained or paused: the folder times are written once
\* nothing is pending, and update_cache returns.  The purge that follows is
\* PurgeFolders and PurgeMissingFiles.
FinishScan(ok) ==
    /\ scan_pc = "drain"
    /\ modified_files = <<>> \/ pause_looping
    /\ scan_pc' = "idle"
    /\ IF Drained(modified_files)
       THEN /\ folder_last_modified' = UpdateFolderInfo(modified_folders, ok)
            /\ modified_folders' = {}
       ELSE UNCHANGED <<folder_last_modified, modified_folders>>
    /\ UNCHANGED <<modified_files, pause_looping, st_mtime, listdir, handed,
                   scan_rows, walked, restOfScan>>

NextScan ==
    \/ \E f \in ScanFiles : AddFile(f)
    \/ \E value \in BOOLEAN : PauseLooping(value)
    \/ UpdateCache
    \/ \E written \in SUBSET ScanFiles : DrainBatch(written)
    \/ \E ok \in BOOLEAN : FinishScan(ok)

(***************************************************************************)
(* Slideshow creation guard: ImageCache.create_new_slideshow               *)
(***************************************************************************)

\* The threads that can call create_new_slideshow.
Creators == {1, 2, 3}

InitCreate ==
    /\ creating_new_slideshow = FALSE
    /\ creator = [c \in Creators |-> "idle"]
    /\ creates = 0
    /\ skipped = {}

\* The guard at the head of create_new_slideshow, as written:
\*   if getattr(self, "_creating_new_slideshow", False): log
\*   elif self._creating_new_slideshow: log; return
\* TRUE when the call returns without generating.
SkipsNewRequest(flag) == IF flag THEN FALSE ELSE IF flag THEN TRUE ELSE FALSE

\* create_new_slideshow is called: the guard is evaluated and, unless it
\* returns, the flag is set and the try block is entered.
CreateNewSlideshow(c) ==
    /\ creator[c] = "idle"
    /\ creates < MaxCreates
    /\ creates' = creates + 1
    /\ IF SkipsNewRequest(creating_new_slideshow)
       THEN /\ skipped' = skipped \cup {c}
            /\ UNCHANGED <<creating_new_slideshow, creator>>
       ELSE /\ skipped' = skipped \ {c}
            /\ creating_new_slideshow' = TRUE
            /\ creator' = [creator EXCEPT ![c] = "generating"]
    /\ UNCHANGED restOfCreate

\* NewSlideshow(model).generate_slideshow() has returned or raised (the
\* exception is logged); finally: the flag is cleared.
CreateEnds(c, ok) ==
    /\ creator[c] = "generating"
    /\ creator' = [creator EXCEPT ![c] = IF ok THEN "idle" ELSE "failed"]
    /\ creating_new_slideshow' = FALSE
    /\ UNCHANGED <<creates, skipped, restOfCreate>>

\* The caller of a call that ended with a logged error goes on.
CreateReturned(c) ==
    /\ creator[c] = "failed"
    /\ creator' = [creator EXCEPT ![c] = "idle"]
    /\ UNCHANGED <<creating_new_slideshow, creates, skipped, restOfCreate>>

NextCreate ==
    \/ \E c \in Creators : CreateNewSlideshow(c)
    \/ \E c \in Creators, ok \in BOOLEAN : CreateEnds(c, ok)
    \/ \E c \in Creators : CreateReturned(c)

InitExt ==
    /\ InitThrottle /\ InitCat /\ InitPurge /\ InitPlay /\ InitSeq
    /\ InitScan /\ InitCreate

\* Every component starts as constructed.
Init == InitTimer /\ InitNorm /\ InitIngest /\ InitExt

SpecTimer == Init /\ [][NextTimer]_vars

SpecNorm == Init /\ [][NextNorm]_vars

SpecThrottle == Init /\ [][NextThrottle]_vars

SpecCat == Init /\ [][NextCat]_vars

SpecPurge == Init /\ [][NextPurge]_vars

SpecPlay == Init /\ [][NextPlay]_vars

SpecSeq == Init /\ [][NextSeq]_vars

SpecScan == Init /\ [][NextScan]_vars

SpecCreate == Init /\ [][NextCreate]_vars

\* The frame as an earlier run left it: playlists known to the store, with or
\* without a recorded version, and at most one imported item, normalized or
\* still waiting in the import directory.
InitInstalled ==
    /\ InitTimer
    /\ InitExt
    /\ InitRemote
    /\ pl_present \in SUBSET Playlists
    /\ src_version \in [Playlists -> {NullVersion} \cup (1..MaxVersion)]
    /\ \A p \in Playlists : p \notin pl_present => src_version[p] = NullVersion
    /\ imported_files \in {{}} \cup {{<<p, 1>>} : p \in pl_present}
    /\ \E normalized \in SUBSET imported_files :
          /\ import_dir = imported_files \ normalized
          /\ out_dir = normalized
          /\ file_rows = [f \in Paths |-> IF f \in normalized THEN 1 ELSE 0]
    /\ file_locks = {}
    /\ sweepReq = [f \in Paths |-> 0]
    /\ singleReq = [f \in Paths |-> 0]
    /\ reqCount = 0
    /\ dropped = {}
    /\ deletes = [f \in Paths |-> 0]
    /\ twice = {}
    /\ fullOk = {}

SpecIngest == InitInstalled /\ [][NextIngest]_vars

(***************************************************************************)
(* Properties of the PersistentScheduler                                   *)
(***************************************************************************)
\* C1: a job registered under a name (once per scheduler) is never launched
\* less than its interval after the last_run persisted for the name at the
\* moment of the launch, and never less than its interval after the previous
\* launch of the name, across ticks, job failures and crash/restart.
C1_RestartSafety ==
    \A n \in JobNames :
        LET l == launchLog[n] IN
        (l.last # None /\ ~l.dup) =>
            /\ (l.persisted # None => l.last - l.persisted >= IntervalOf(n))
            /\ (l.prev # None => l.last - l.prev >= IntervalOf(n))

\* C2: while a job unit is in flight, the last_run persisted for its name is
\* at least the time of the tick that launched it.
C2_PersistedBeforeLaunch ==
    \A u \in units :
        timer_state[u.name] # None /\ timer_state[u.name] >= u.at

(***************************************************************************)
(* Properties of the Normalizer                                            *)
(***************************************************************************)
\* C3: a path requested for normalization twice at once is processed once:
\* never more than one file row and never more than one deletion of the
\* source, and once both requests have run and the processing succeeded there
\* is exactly one row, the source was deleted exactly once and is gone.
C3_ProcessedOnce ==
    \A f \in Paths :
        /\ file_rows[f] <= 1
        /\ deletes[f] <= 1
        /\ (f \in twice /\ f \in fullOk /\ Pending(f) = 0) =>
               (file_rows[f] = 1 /\ deletes[f] = 1 /\ f \notin import_dir)

\* Two requests for one path were pending together, one processed the file
\* and both have run.
C3_Witness ==
    \E f \in Paths :
        /\ f \in twice /\ f \in fullOk /\ Pending(f) = 0
        /\ file_rows[f] = 1 /\ deletes[f] = 1 /\ reqCount >= 2

\* C4: the source file of a dropped path is gone from the import directory
\* only if the file table holds the row of its normalized output.
C4_DeleteAfterStoreWrite ==
    \A f \in dropped : f \notin import_dir => file_rows[f] >= 1

(***************************************************************************)
(* Properties of the Ingestor                                              *)
(***************************************************************************)
Queued(p) == {c \in cycles : \E i \in 1..Len(c.queue) : c.queue[i][1] = p}

\* C5: at most one ingestion cycle is in progress at any time, and a call of
\* check_for_updates made while a cycle is in progress (its downloads
\* included) lists nothing, fetches nothing, starts no download and leaves
\* no cycle behind for later.
C5_SingleCycle ==
    [][/\ Cardinality(cycles') <= 1
       /\ (callNo' = callNo + 1 /\ cycles # {}) =>
              UNCHANGED <<cycles, importing, listings, itemRequests, dl,
                          pl_present, imported_files, normVars>>]_vars

\* A second call was made while the cycle of the first was in progress.
C5_Witness ==
    /\ callNo = 2
    /\ \E c \in cycles : c.id = 1
    /\ Cardinality(cycles) = 1

\* C6: once no cycle is in progress, whether the last one succeeded or
\* failed, the in-progress flag is clear, so that the next call runs a cycle.
C6_FlagReleased == cycles = {} => ~importing

\* C7: as long as the remote side has not changed since the first call, every
\* download made is a download of the first call's cycle: the second call
\* adds none.
C7_SecondCallIdle == ~remoteChanged => \A d \in dl : d[1] = 1

\* The first call downloaded something, its cycle has ended, the remote side
\* is unchanged and the second call has been made.
C7_Witness ==
    /\ callNo = 2
    /\ ~remoteChanged
    /\ cycles = {}
    /\ dl # {}

\* C8: for a playlist classified 'update' whose stored src_version equals the
\* remote version counter, the cycle issues no request for the playlist's
\* items and queues none of them.
C8_UpToDateSkipped ==
    \A p \in upToDate : p \notin itemRequests /\ Queued(p) = {}

\* C9: no item is queued that already has an imported_files record, and no
\* item is queued twice by one fetch.
C9_NoRequeue ==
    /\ requeued = {}
    /\ \A c \in cycles : \A i, j \in 1..Len(c.queue) :
           i # j => c.queue[i] # c.queue[j]

\* C10: after a cycle whose listing no longer holds a playlist of the store,
\* nothing of the playlist remains: no imported_playlists row, no
\* imported_files row, no file row and no file on disk.
C10_StaleRemoved ==
    \A p \in staleSeen :
        /\ p \notin pl_present
        /\ \A f \in Paths : f[1] = p =>
               /\ f \notin imported_files
               /\ file_rows[f] = 0
               /\ f \notin import_dir
               /\ f \notin out_dir

(***************************************************************************)
(* Properties of the download throttling                                   *)
(***************************************************************************)
\* C11: while a save_downloaded_media call is in progress, at most
\* max_concurrent_downloads transfers and at most
\* max_concurrent_db_operations writes of imported_files records run at the
\* same time.
C11_Throttled ==
    saving =>
        /\ Count("transfer") <= max_concurrent_downloads
        /\ Count("dbwrite") <= max_concurrent_db_operations

\* Both limits are reached while further units of the batch wait: one for the
\* store, one for a transfer slot.
C11_Witness ==
    /\ saving
    /\ Count("dbwrite") = max_concurrent_db_operations
    /\ Count("dbwait") >= 1
    /\ Count("waiting") >= 1
    /\ download_semaphore = 0

C13_InsertAtomic ==
    \A c \in CallIds :
        (/\ ins[c].kind = "insert"
         /\ ins[c].pc \in {"file", "meta", "exit"}
         /\ \A d \in CallIds \ {c} :
               ins[d].kind = "insert" /\ ins[d].files \cap ins[c].files = {}) =>
            \A f \in ins[c].files :
                {t \in Tabs : <<c, f, t>> \in txn} = ins[c].wrote

(***************************************************************************)
(* Properties of playing the slideshow                                     *)
(***************************************************************************)
\* The unplayed entries of the table whose file row exists.
Playable == {s \in slideshow : s.played = 0 /\ shown[s.file_id] # None}

\* C14: get_next_file_from_slideshow returns the file of the entry with the
\* smallest (group_num, order_in_group) among the unplayed entries whose file
\* exists, never an entry without a file row, and None exactly when there is
\* no such entry.
C14_NextUnplayed ==
    next_pic.asked =>
        /\ (next_pic.file_id = None <=> Playable = {})
        /\ next_pic.file_id # None =>
              \E s \in Playable :
                  /\ s.file_id = next_pic.file_id
                  /\ \A t \in Playable :
                        \/ s.group_num < t.group_num
                        \/ s.group_num = t.group_num /\ s.order_in_group <= t.order_in_group

\* C14 happens: the first unplayed entry of the table has no file row and the
\* call returned a later one.
C14_Witness ==
    /\ next_pic.asked
    /\ \E d, s \in slideshow :
          /\ d.played = 0 /\ shown[d.file_id] = None
          /\ s.file_id = next_pic.file_id
          /\ d.group_num < s.group_num
    /\ \E p \in slideshow : p.played = 1

\* What one set_played_for_image(file_id) call does as a whole.
Played(table, f) == {IF s.file_id = f THEN [s EXCEPT !.played = 1] ELSE s : s \in table}

FilesIn(folder) == {i \in 1..Len(folder_map) : folder_map[i] = folder}

RowsOf(g_num) == {i \in 1..Len(seq_table.rows) : seq_table.rows[i][1] = g_num}

\* C16: generate_slideshow returns None exactly when the store has no file,
\* and then leaves table slideshow as it was; with files it returns the
\* number of groups it wrote.
C16_ReturnTellsApart ==
    seq_pc = "done" =>
        /\ seq_ret.value = None <=> Len(folder_map) = 0
        /\ Len(folder_map) = 0 => seq_table = OldTable
        /\ Len(folder_map) > 0 => seq_ret.value = Len(groups)

\* C17: for a store with landscape and portrait files and a minimum group
\* size not above the target, every group of the table generate_slideshow
\* wrote has at least min_set_size rows.
C17_GroupsAtLeastMin ==
    (/\ seq_pc = "done" /\ seq_table.written
     /\ min_set_size <= target_set_size
     /\ FilesIn(1) # {} /\ FilesIn(2) # {} /\ FilesIn(3) = {}) =>
        \A g \in 1..Len(groups) : Cardinality(RowsOf(g)) >= min_set_size

\* The smaller of the two orientations' file counts, and the groups of the
\* other type than the first group's.
MinorityCount ==
    IF Cardinality(FilesIn(1)) <= Cardinality(FilesIn(2))
    THEN Cardinality(FilesIn(1)) ELSE Cardinality(FilesIn(2))

MinorityGroupsBuilt == {i \in 1..Len(groups) : groups[i].type # groups[1].type}

\* The number of minority groups the claims state.
MinorityGroupsStated ==
    LET half == Len(groups) \div 2
        fit == MinorityCount \div min_set_size
    IN  IF half <= fit THEN half ELSE fit

FolderOfType(type) == IF type = "portrait" THEN 2 ELSE 1

\* C18: the groups at even 0-based indices are of the dominant orientation,
\* those at odd indices of the minority orientation while minority groups
\* remain, all later ones dominant; the dominant orientation has at least as
\* many files as the other, and a group holds files of its orientation only.
C18_Alternation ==
    (seq_pc = "done" /\ seq_table.written) =>
        \E dom, minor \in {"portrait", "landscape"} :
            /\ dom # minor
            /\ Cardinality(FilesIn(FolderOfType(dom))) >=
                  Cardinality(FilesIn(FolderOfType(minor)))
            /\ \A i \in 1..Len(groups) :
                  /\ groups[i].type =
                        IF (i - 1) % 2 = 1 /\ i \div 2 <= MinorityGroupsStated
                        THEN minor ELSE dom
                  /\ \A k \in 1..Len(groups[i].ids) :
                        folder_map[groups[i].ids[k]] = FolderOfType(groups[i].type)

\* C18 happens: shuffled files, and a minority group between two dominant
\* groups.
C18_Witness ==
    /\ seq_pc = "done" /\ seq_table.written
    /\ shuffle
    /\ Len(groups) = 3
    /\ groups[2].type # groups[1].type
    /\ groups[3].type = groups[1].type
    /\ \A i \in 1..3 : groups[i].ids # <<>>

\* The scenario of 7 landscape and 3 portrait files, target 5, minimum 3.
ScenarioGroups ==
    BuildGroupsDynamic([i \in 1..10 |-> i], [i \in 1..10 |-> IF i <= 7 THEN 1 ELSE 2], 5, 3)

C20_FallbackPermutation ==
    fell_back # "no" =>
        /\ seq_pc \in {"build", "create", "insert", "done"}
        /\ random_positions \in Perms(Len(folder_map))
        /\ seq_pc = "done" => seq_ret.returned /\ (seq_table.written \/ seq_table.error)

\* C20 happens: the service failed in a later request, after it had answered
\* the first, and the generation has ended.
C20_Witness ==
    /\ fell_back = "later"
    /\ seq_pc = "done"
    /\ seq_table.written
    /\ Len(folder_map) = MaxFiles

\* C21: whoever reads table slideshow on another connection finds it there
\* with the complete previous sequence or the complete new one, the new one
\* once save_to_slideshow has succeeded and the previous one when it failed.
C21_AtomicReplace ==
    /\ seq_table.exists
    /\ seq_table.old # seq_table.written
    /\ (seq_pc = "done" /\ seq_table.error) => seq_table.old
    /\ (seq_pc = "done" /\ ~seq_table.old /\ ~seq_table.error) => seq_table.written

(***************************************************************************)
(* Properties of the PersistentScheduler: failures, stop, registration     *)
(***************************************************************************)
\* C22: no failure in a job body stops the tick loop: once started, the loop
\* runs (and so launches what is due at every tick) until stop() is called
\* or the process is restarted.
C22_FailureKeepsLoop ==
    [][(running /\ ~stopped' /\ restarts' = restarts) => running']_vars

\* C23: cleanup() of a job is never called more than once, and once the
\* cancellations of stop() have surfaced in every unit, cleanup() of each job
\* that had a unit cancelled has been called exactly once.
C23_CleanupOnce ==
    /\ \A n \in JobNames : cleanups[n] <= 1
    /\ (stopped /\ units = {}) => \A n \in cancelled : cleanups[n] = 1

\* The state stop() leaves: every registered job's last_run is in timer_state,
\* every unit still there is a cancelled one, the handle is closed and the
\* loop is not running.
StoppedState ==
    /\ \A i \in 1..Len(tasks) : timer_state[tasks[i].name] = tasks[i].last_run
    /\ \A u \in units : u.st \in {"cancelled_new", "cancelled"}
    /\ ~db_open
    /\ ~running

\* C24: after stop() has returned, timer_state holds the in-memory last_run
\* of every registered job, every unit in flight is cancelled and the handle
\* closed; and from then on no job is launched and timer_state is not written.
C24_AfterStop ==
    [][/\ stopped' => StoppedState'
       /\ (stopped /\ stopped') => /\ timer_state' = timer_state
                                   /\ units' \subseteq units
                                   /\ launchLog' = launchLog]_vars

\* C25: register leaves at most one job per name, so that a second register
\* with a registered name changes nothing.
C25_UniqueNames ==
    \A i, j \in 1..Len(tasks) : tasks[i].name = tasks[j].name => i = j

\* A unit that is neither finished nor cancelled.
InFlight(u) == u.st \in {"created", "running"}

\* C26: a tick creates a unit for every registered job whose interval has
\* passed since its last_run, whatever units are in flight.
C26_LaunchedWhenDue ==
    [][now' # now =>
          \A i \in 1..Len(tasks) :
              now - tasks[i].last_run >= tasks[i].interval =>
                  [idx |-> i, name |-> tasks[i].name, at |-> now, st |-> "created"]
                      \in units']_vars

\* C26 (witness): two units of one registered job are in flight at once, the
\* later one launched while the earlier one was still running.
C26_Witness ==
    \E u, v \in units :
        /\ u.idx = v.idx /\ u.at < v.at
        /\ u.st = "running" /\ InFlight(v)

(***************************************************************************)
(* Properties of the Ingestor: login failure, version watermark            *)
(***************************************************************************)
\* C27: a refused login ends the part of its source only: the preparation
\* pass still comes to every enabled source, and the process with its
\* scheduler keeps running.
C27_LoginFailureLocal ==
    login_failed => /\ ~exited
                    /\ (cycles = {} => visited = Range(Sources))

\* C28: no step of an ingestion cycle lowers (or loses) the src_version stored
\* for a playlist.
C28_VersionMonotonic ==
    [][\A p \in Playlists : src_version'[p] >= src_version[p]]_vars

\* C28 (witness): a pass has listed and upserted a playlist with a stored
\* version for which the remote reports a lower version.
C28_Witness ==
    /\ listings > 0
    /\ \E p \in pl_present \cap itemRequests :
          /\ src_version[p] # NullVersion
          /\ remote[p].present
          /\ remote[p].ver < src_version[p]

C30_PurgeGated ==
    [][purge_pc' # purge_pc =>
          /\ (disk_folder \ disk_folder' # {}) => purge_req # "none"
          /\ \A f \in CatFiles :
                (disk_file[f] > 0 /\ disk_file'[f] = 0 /\ f[1] \notin gone_dirs)
                    => purge_req = "files"]_vars

\* C31: an item is handed to the Normalizer, and counted as successful, only
\* after its download succeeded and its imported_files record was written; an
\* item whose store write failed is neither handed over nor counted.
C31_NormalizedAfterRecord ==
    /\ image_processing_tasks \subseteq file_records
    /\ results \subseteq file_records

C33_BatchMetadata ==
    [][\A c \in CallIds :
          (ins[c].kind = "batch" /\ ins[c].pc = "exit" /\ ins'[c].pc = "idle")
              => \A f \in ins[c].files : disk_file'[f] > 0 => f \in disk_meta']_vars
\* C35: at most one generation runs at a time (a call made while a creation
\* is in progress returns without generating), and the in-progress flag is
\* set exactly while a generation runs: it is cleared when the generation
\* ends, with or without an error.
C35_OneGeneration ==
    /\ Cardinality({c \in Creators : creator[c] = "generating"}) <= 1
    /\ creating_new_slideshow <=> \E c \in Creators : creator[c] = "generating"
\* C36: after generate_slideshow has written the table for a non-empty
\* store, every file id is the file_id of exactly one row of the table: none
\* is left out and none appears twice.
C36_GroupsPartitionFiles ==
    (seq_pc = "done" /\ seq_table.written /\ Len(folder_map) > 0) =>
        \A fid \in 1..Len(folder_map) :
            Cardinality({i \in 1..Len(seq_table.rows) : seq_table.rows[i][3] = fid}) = 1
\* C37: once a preparation pass has fetched the item list of a playlist at
\* remote version v and queued items from it, the stored src_version of the
\* playlist is v (so that the next pass at version v finds it up to date).
C37_VersionStored ==
    \A c \in cycles :
        c.phase = "download" =>
            \A f \in Range(c.queue) : src_version[f[1]] = remote[f[1]].ver
\* The entry of a file in the table.
EntryOf(table, f) == CHOOSE s \in table : s.file_id = f

\* (group_num, order_in_group) of a is strictly below that of b.
StrictlyBelow(a, b) ==
    \/ a.group_num < b.group_num
    \/ a.group_num = b.group_num /\ a.order_in_group < b.order_in_group

\* C38: from a freshly written table whose entries all have their file row,
\* as long as every call of get_next_file_from_slideshow is followed by a
\* committed set_played_for_image of the file it returned, the files returned
\* are all different and come in strictly increasing (group_num,
\* order_in_group) order, None is returned only when every entry of the table
\* has been returned, and a committed played = 1 never goes back to 0.
C38_EveryEntryOnce ==
    [][/\ following' =>
            /\ \A i, j \in 1..Len(served') :
                  i < j => /\ served'[i] # served'[j]
                           /\ StrictlyBelow(EntryOf(slideshow', served'[i]),
                                            EntryOf(slideshow', served'[j]))
            /\ (next_pic'.asked /\ next_pic'.file_id = None) =>
                  Range(served') = {s.file_id : s \in slideshow'}
            /\ (next_pic'.asked /\ next_pic'.file_id # None) =>
                  next_pic'.file_id = served'[Len(served')]
       /\ \A s \in disk_slideshow : s.played = 1 => s \in disk_slideshow']_vars

\* C38 happens: a table of two entries was played to its end: both files were
\* returned and marked, and the next call returned None.
C38_Witness ==
    /\ following
    /\ Len(served) = 2
    /\ next_pic.asked /\ next_pic.file_id = None
    /\ \A s \in disk_slideshow : s.played = 1
\* C39: whenever get_next_file_from_slideshow has returned None for the
\* present tables, _is_active_slideshow is false: no played = 0 row remains,
\* also when entries reference files that were deleted.
C39_NoneMeansInactive ==
    (next_pic.asked /\ next_pic.file_id = None) => ~IsActiveSlideshow(slideshow)
\* C40: in the reconciliation of a pass no store write is issued on a second
\* connection while the pass's own write transaction is open on the first:
\* no DELETE of a stale playlist waits for a lock the same pass holds (and
\* ends in "database is locked").
C40_NoSelfLock == lockWaits = {}

====
